---- MODULE Spec2Model ----
(***************************************************************************)
(* A model of the core of rust-lexical:                                    *)
(*   - the format-parameterised digit iterator (lexical-util/src/skip.rs,  *)
(*     lexical-util/src/iterator.rs),                                      *)
(*   - the compact integer writer (lexical-write-integer/src/compact.rs),  *)
(*   - the float writer's sign / special / back-end dispatch               *)
(*     (lexical-write-float/src/write.rs).                                 *)
(* Bytes are their ASCII codes.  An Option<&u8> is the byte or None.       *)
(***************************************************************************)
EXTENDS Integers, Sequences, FiniteSets, TLC

\* ------------------------------------------------------------------ bounds

\* Longest input buffer drawn (besides the two literal scenario buffers).
MaxLen == 3
\* Largest n handed to take_n.
MaxTake == 2

\* ------------------------------------------------------------ byte helpers

\* Option::None for an Option<&u8> / Option<usize>.
None == -1

\* Input bytes: '0', '1', '_' and the non-digit 'x'.
Alphabet == {48, 49, 95, 120}

\* b"1_000_000" and b"_1000".
Scenario_1_000_000 == <<49, 95, 48, 48, 48, 95, 48, 48, 48>>
Scenario__1000 == <<95, 49, 48, 48, 48>>

\* All buffers over Alphabet of length <= n.
RECURSIVE BufsUpTo(_)
BufsUpTo(n) ==
    IF n = 0 THEN {<<>>}
    ELSE LET shorter == BufsUpTo(n - 1)
         IN  shorter \cup {Append(s, c) : s \in {t \in shorter : Len(t) = n - 1}, c \in Alphabet}

Buffers == BufsUpTo(MaxLen)

\* ------------------------------------------------------------------ format

\* The four section iterators of Bytes.
Sections == {"integer", "fraction", "exponent", "special"}

\* The digit-separator flags a section's mask selects: [i]nternal,
\* [l]eading, [t]railing, [c]onsecutive; the special section has one flag.
SectionFlags(S) == IF S = "special" THEN {"S"} ELSE {"I", "L", "T", "C"}

\* A format, as far as section S reads it: the separator byte (0 = none),
\* the flags under S's mask, the mantissa radix and the exponent radix.  The
\* exponent section is also read under a format whose mantissa is in base 36
\* (where 'x' is a digit) and whose exponent is decimal.
Formats(S) ==
    [digit_separator : {0, 95}, flags : SUBSET SectionFlags(S),
     mantissa_radix : IF S = "exponent" THEN {10, 36} ELSE {10},
     exponent_radix : {10}]

\* ------------------------------------------------------------------- state

VARIABLES
    FORMAT,     \* the const generic FORMAT of Bytes and its iterators
    iter,       \* which section iterator the calls are made on
    byte,       \* Bytes { slc, index, count }
    lastOp,     \* the last operation called on the iterator
    ret,        \* what it returned (a byte, a count, 0/1 for a bool, or None)
    sub,        \* the Bytes take_n returned last
    yielded,    \* the bytes handed out so far (next, try_read, read_if, skip_zeros, take_n)
    panicked,   \* a panic unwound the call (unreachable!() in peek)
    cw,         \* the locals of one Compact::compact call
    fw          \* the locals of one WriteFloat::write_float call

vars == <<FORMAT, iter, byte, lastOp, ret, sub, yielded, panicked, cw, fw>>

\* ------------------------------------------------------------ idle components

\* The integer format "separator '_', internal only".
InternalUnderscore ==
    [digit_separator |-> 95, flags |-> {"I"}, mantissa_radix |-> 10, exponent_radix |-> 10]

\* No Bytes handed out by take_n.
NoSub == [some |-> FALSE, bytes |-> [slc |-> <<>>, index |-> 0, count |-> 0]]

\* No call of the integer writer / the float writer is under way.
CwIdle == [pc |-> "idle"]
FwIdle == [pc |-> "idle"]

\* No iterator is in use.
IterIdle ==
    /\ iter = "integer"
    /\ FORMAT = InternalUnderscore
    /\ byte = [slc |-> <<>>, index |-> 0, count |-> 0]
    /\ lastOp = "new"
    /\ ret = None
    /\ sub = NoSub
    /\ yielded = <<>>
    /\ panicked = FALSE

IterUnchanged == UNCHANGED <<FORMAT, iter, byte, lastOp, ret, sub, yielded, panicked>>

\* ----------------------------------------------------- digit classification

\* lexical_util::digit::char_is_digit_const: '0'..'9' count up to the radix,
\* letters (either case) stand for 10..35 when the radix exceeds 10.
char_is_digit_const(c, radix) ==
    LET digit == IF c >= 48 /\ c <= 57 THEN c - 48
                 ELSE IF radix > 10 /\ c >= 65 /\ c <= 90 THEN c - 65 + 10
                 ELSE IF radix > 10 /\ c >= 97 /\ c <= 122 THEN c - 97 + 10
                 ELSE 255
    IN  digit < radix

\* slc.get(i): the byte at i, or None outside the slice.
get(slc, i) == IF i >= 0 /\ i < Len(slc) THEN slc[i + 1] ELSE None

\* <iterator>::is_digit_separator.
is_digit_separator(F, value) ==
    IF F.digit_separator = 0 THEN FALSE ELSE value = F.digit_separator

\* DigitsIter::is_digit of the section iterators.
is_digit(F, value) == char_is_digit_const(value, F.mantissa_radix)

\* slc.get(i).map_or(false, |&x| self.is_digit_separator(x))
sep_at(F, slc, i) == get(slc, i) # None /\ is_digit_separator(F, get(slc, i))

\* slc.get(i).map_or(false, |&x| self.is_digit(x))
digit_at(F, slc, i) == get(slc, i) # None /\ is_digit(F, get(slc, i))

\* ------------------------------------------------------- position predicates

\* is_l!: the loop that walks back over the separators before the cursor.
RECURSIVE is_l_scan(_, _, _)
is_l_scan(F, slc, index) ==
    IF index > 0 /\ sep_at(F, slc, index - 1)
    THEN is_l_scan(F, slc, index - 1)
    ELSE index

\* is_l!: the separator at the cursor is leading.
is_l(F, b) ==
    LET index == is_l_scan(F, b.slc, b.index)
    IN  index = 0 \/ ~digit_at(F, b.slc, index - 1)

\* is_t!: the loop that walks forward over the separators after the cursor.
RECURSIVE is_t_scan(_, _, _)
is_t_scan(F, slc, index) ==
    IF index < Len(slc) /\ sep_at(F, slc, index + 1)
    THEN is_t_scan(F, slc, index + 1)
    ELSE index

\* is_t!: the separator at the cursor is trailing.
is_t(F, b) ==
    LET index == is_t_scan(F, b.slc, b.index)
    IN  index = Len(b.slc) \/ ~digit_at(F, b.slc, index + 1)

\* is_i! without the leading check.
is_i_mut(F, b) == ~is_t(F, b)

is_i(F, b) == ~is_l(F, b) /\ ~is_t(F, b)
\* is_il! without the internal case.
is_il_mut(F, b) == is_l(F, b)

is_il(F, b) == is_l(F, b) \/ ~is_t(F, b)
is_it(F, b) == is_t(F, b) \/ ~is_l(F, b)
is_lt(F, b) == is_l(F, b) \/ is_t(F, b)
is_ilt(F, b) == TRUE

\* $is_skip!($self): the macro handed to peek_1!/peek_n! by peek_<x>! and
\* by peek_<x>c!.
is_skip(x, F, b) ==
    CASE x \in {"i", "ic"} -> is_i(F, b)
      [] x \in {"l", "lc"} -> is_l(F, b)
      [] x \in {"t", "tc"} -> is_t(F, b)
      [] x \in {"il", "ilc"} -> is_il(F, b)
      [] x \in {"it", "itc"} -> is_it(F, b)
      [] x \in {"lt", "ltc"} -> is_lt(F, b)
      [] x = "ilt" -> is_ilt(F, b)

\* ---------------------------------------------------------------------- peek

\* What a call leaves behind: the Bytes, the value returned, whether it panicked.
Result(b, v) == [byte |-> b, ret |-> v, panic |-> FALSE]
Panic(b) == [byte |-> b, ret |-> None, panic |-> TRUE]

\* The while loop of peek_1!/peek_n!: the first index at or after `index`
\* that holds no separator.
RECURSIVE skip_run(_, _, _)
skip_run(F, slc, index) ==
    IF index < Len(slc) /\ sep_at(F, slc, index)
    THEN skip_run(F, slc, index + 1)
    ELSE index

\* peek_1! stepping over one separator only.
peek_1_mut(kind, F, b) ==
    LET value == get(b.slc, b.index)
    IN  IF value = None THEN Result(b, None)
        ELSE IF is_digit_separator(F, value) /\ is_skip(kind, F, b)
        THEN Result([b EXCEPT !.index = @ + 1], get(b.slc, b.index + 1))
        ELSE Result(b, value)

peek_1(kind, F, b) ==
    LET value == get(b.slc, b.index)
    IN  IF value = None THEN Result(b, None)
        ELSE IF is_digit_separator(F, value) /\ is_skip(kind, F, b)
        THEN LET index == skip_run(F, b.slc, b.index + 1)
             IN  Result([b EXCEPT !.index = index], get(b.slc, index))
        ELSE Result(b, value)

peek_n(kind, F, b) ==
    LET value == get(b.slc, b.index)
    IN  IF value = None THEN Result(b, None)
        ELSE IF is_digit_separator(F, value) /\ is_skip(kind, F, b)
        THEN LET index == skip_run(F, b.slc, b.index + 1)
             IN  Result([b EXCEPT !.index = index], get(b.slc, index))
        ELSE Result(b, value)

peek_noskip(b) == Result(b, get(b.slc, b.index))

RECURSIVE peek_iltc(_, _)
peek_iltc(F, b) ==
    LET value == get(b.slc, b.index)
    IN  IF value = None THEN Result(b, None)
        ELSE IF ~is_digit_separator(F, value) THEN Result(b, value)
        ELSE peek_iltc(F, [b EXCEPT !.index = @ + 1])

\* The arm of peek's match on the flags under the section's mask: the x of
\* the peek_<x>! it expands, or "unreachable" for the `_` arm.
peek_arm(F) ==
    CASE F.flags = {} -> "noskip"
      [] F.flags = {"I"} -> "i"
      [] F.flags = {"L"} -> "l"
      [] F.flags = {"T"} -> "t"
      [] F.flags = {"I", "L"} -> "il"
      [] F.flags = {"I", "T"} -> "it"
      [] F.flags = {"L", "T"} -> "lt"
      [] F.flags = {"I", "L", "T"} -> "ilt"
      [] F.flags = {"I", "C"} -> "ic"
      [] F.flags = {"L", "C"} -> "lc"
      [] F.flags = {"T", "C"} -> "tc"
      [] F.flags = {"I", "L", "C"} -> "ilc"
      [] F.flags = {"I", "T", "C"} -> "itc"
      [] F.flags = {"L", "T", "C"} -> "ltc"
      [] F.flags = {"I", "L", "T", "C"} -> "iltc"
      [] OTHER -> "unreachable"

\* peek_<x>!: peek_1! for peek_i .. peek_ilt, peek_n! for peek_ic .. peek_ltc.
peek_x(x, F, b) ==
    CASE x = "noskip" -> peek_noskip(b)
      [] x \in {"i", "l", "t", "il", "it", "lt", "ilt"} -> peek_1(x, F, b)
      [] x \in {"ic", "lc", "tc", "ilc", "itc", "ltc"} -> peek_n(x, F, b)
      [] x = "iltc" -> peek_iltc(F, b)
      [] x = "unreachable" -> Panic(b)

\* DigitsIter::peek of the integer, fraction and exponent iterators.
peek_digits(F, b) == peek_x(peek_arm(F), F, b)

\* DigitsIter::peek of the special iterator.
peek_special(F, b) ==
    IF "S" \in F.flags THEN peek_iltc(F, b) ELSE peek_noskip(b)

\* DigitsIter::peek of section iterator S.
peek(F, S, b) == IF S = "special" THEN peek_special(F, b) ELSE peek_digits(F, b)

\* ---------------------------------------------------------------- Iter base

\* <Bytes as Iter>::IS_CONTIGUOUS.
Bytes_IS_CONTIGUOUS(F) == F.digit_separator = 0

\* <section iterator as Iter>::IS_CONTIGUOUS: FORMAT & mask == 0.
IS_CONTIGUOUS(F, S) == F.flags = {}

\* Bytes::new.
Bytes_new(slc) == [slc |-> slc, index |-> 0, count |-> 0]

\* Bytes::from_parts.
from_parts(slc, index) == [slc |-> slc, index |-> index, count |-> 0]

\* The debug_assert!s of Bytes::from_parts: they abort the call in a build
\* with debug assertions and are compiled out of any other build.
from_parts_debug_assert(F, slc, index) == index <= Len(slc) /\ Bytes_IS_CONTIGUOUS(F)

\* is_done with the comparison off by one.
is_done_mut(b) == b.index > Len(b.slc)

\* Bytes::is_done, which the iterators' is_done and is_empty forward to.
is_done(b) == b.index >= Len(b.slc)

\* current_count without the contiguous case.
current_count_mut(F, b) == b.count

\* Bytes::current_count, which the iterators' current_count forwards to.
current_count(F, b) == IF Bytes_IS_CONTIGUOUS(F) THEN b.index ELSE b.count

\* Bytes::step_by_unchecked, which the iterators' step_by_unchecked forwards to.
step_by_unchecked(F, b, n) ==
    [b EXCEPT !.index = @ + n,
              !.count = IF ~Bytes_IS_CONTIGUOUS(F) THEN @ + n ELSE @]

\* The debug_assert!s of Bytes::step_by_unchecked: they abort the call in a
\* build with debug assertions and are compiled out of any other build.
step_debug_assert(F, b, n) ==
    IF Bytes_IS_CONTIGUOUS(F)
    THEN Len(b.slc) - b.index >= n
    ELSE /\ Len(b.slc) - b.index >= n
         /\ n = 0 \/ n = 1
         /\ n = 0 \/ get(b.slc, b.index) # F.digit_separator

\* Iter::step_unchecked.
step_unchecked(F, b) == step_by_unchecked(F, b, 1)

\* Bytes::set_cursor.
set_cursor(b, index) == [b EXCEPT !.index = index]

\* ----------------------------------------------------------------- operations

\* next stepping on when peek returned none.
next_mut(F, S, b) ==
    LET p == peek(F, S, b)
    IN  IF p.panic THEN p
        ELSE Result([p.byte EXCEPT !.index = @ + 1,
                                   !.count = IF ~IS_CONTIGUOUS(F, S) THEN @ + 1 ELSE @],
                    p.ret)

\* Iterator::next of a section iterator.
next(F, S, b) ==
    LET p == peek(F, S, b)
    IN  IF p.panic \/ p.ret = None THEN p
        ELSE Result([p.byte EXCEPT !.index = @ + 1,
                                   !.count = IF ~IS_CONTIGUOUS(F, S) THEN @ + 1 ELSE @],
                    p.ret)

\* DigitsIter::try_read.
try_read(F, S, b) ==
    LET p == peek(F, S, b)
    IN  IF p.panic \/ p.ret = None THEN p
        ELSE Result(step_unchecked(F, p.byte), p.ret)

\* DigitsIter::read_if, with the predicate |c| c == want.
read_if(F, S, b, want) ==
    LET p == peek(F, S, b)
    IN  IF p.panic \/ p.ret = None THEN p
        ELSE IF p.ret = want THEN Result(step_unchecked(F, p.byte), p.ret)
        ELSE Result(p.byte, None)

\* DigitsIter::is_consumed: 1 for true, 0 for false.
is_consumed(F, S, b) ==
    LET p == peek(F, S, b)
    IN  IF p.panic THEN p ELSE Result(p.byte, IF p.ret = None THEN 1 ELSE 0)

\* The while loop of skip_zeros: the Bytes it ends on, and the zeros it
\* passed. skip_zeros_loop is the loop head (the peek of `while let`),
\* skip_zeros_body the match on the peeked value and the body's next().
RECURSIVE skip_zeros_loop(_, _, _, _)
RECURSIVE skip_zeros_body(_, _, _, _)
skip_zeros_body(F, S, p, zeros) ==
    IF p.panic THEN [byte |-> p.byte, zeros |-> zeros, panic |-> TRUE]
    ELSE IF p.ret = 48
    THEN skip_zeros_loop(F, S, next(F, S, p.byte).byte, zeros + 1)
    ELSE [byte |-> p.byte, zeros |-> zeros, panic |-> FALSE]

skip_zeros_loop(F, S, b, zeros) == skip_zeros_body(F, S, peek(F, S, b), zeros)

\* DigitsIter::skip_zeros: returns cursor() - start.
skip_zeros(F, S, b) ==
    LET start == b.index
        e == skip_zeros_loop(F, S, b, 0)
    IN  [byte |-> e.byte, ret |-> IF e.panic THEN None ELSE e.byte.index - start,
         panic |-> e.panic, zeros |-> e.zeros]

\* The smaller of two usize.
min(a, b) == IF a < b THEN a ELSE b

\* <section iterator>::take_n: the Bytes it hands out (some = FALSE for none)
\* and the Bytes underlying the iterator afterwards.
take_n(F, S, b, n) ==
    IF IS_CONTIGUOUS(F, S)
    THEN LET end == min(Len(b.slc), n + b.index)
             slc == SubSeq(b.slc, 1, end)
         IN  [byte |-> set_cursor(b, end),
              sub |-> [some |-> TRUE, bytes |-> from_parts(slc, b.index)]]
    ELSE [byte |-> b, sub |-> NoSub]

\* Iter::as_slice: the bytes from the cursor on.
as_slice(b) == SubSeq(b.slc, b.index + 1, Len(b.slc))

\* ------------------------------------------------------ compact integer writer

\* An unsigned integer of a fixed width is the sequence of its bytes, most
\* significant first (u8: 1, u16: 2, u32: 4, u64 and usize: 8, u128: 16).

\* The widths (Self::BITS) of the types compact_impl! implements Compact for.
CompactBits == {8, 16, 32, 64, 128}

\* Largest small value drawn, besides 12345 and each type's MAX.
MaxValue == 40

\* The value n (below 2^31) in a type of `limbs` bytes.
RECURSIVE FromNat(_, _)
FromNat(n, limbs) ==
    IF limbs = 0 THEN <<>> ELSE Append(FromNat(n \div 256, limbs - 1), n % 256)

\* <T>::MAX.
MaxOf(limbs) == [k \in 1..limbs |-> 255]

\* A division that leaves the value as it was.
div_rem_mut(value, radix, rem) == [q |-> value, r |-> 0]

\* value / radix and value % radix, by long division over the bytes: r[k]
\* is the remainder carried out of the first k bytes.
div_rem(value, radix, rem) ==
    LET r[k \in 0..Len(value)] ==
            IF k = 0 THEN rem ELSE (r[k - 1] * 256 + value[k]) % radix
    IN  [q |-> [k \in 1..Len(value) |-> (r[k - 1] * 256 + value[k]) \div radix],
         r |-> r[Len(value)]]

\* value >= radix (the radix is below 256).
value_ge_mut(value, radix) ==
    \/ \E k \in 1..(Len(value) - 1) : value[k] # 0
    \/ value[Len(value)] > radix

value_ge(value, radix) ==
    \/ \E k \in 1..(Len(value) - 1) : value[k] # 0
    \/ value[Len(value)] >= radix

\* lexical_util::digit::char_to_digit_const, before the radix check: the
\* digit a byte stands for, 255 when it stands for none.
DigitValue(c) ==
    IF c >= 48 /\ c <= 57 THEN c - 48
    ELSE IF c >= 65 /\ c <= 90 THEN c - 65 + 10
    ELSE IF c >= 97 /\ c <= 122 THEN c - 97 + 10
    ELSE 255

\* lexical_util::digit::digit_to_char.
digit_to_char(digit) == IF digit < 10 THEN 48 + digit ELSE 65 + digit - 10

\* copy_to_dst reporting one byte more than it copied.
copy_to_dst_mut(dst, src) ==
    [bytes |-> [k \in 1..Len(dst) |-> IF k <= Len(src) THEN src[k] ELSE dst[k]],
     len |-> Len(src) + 1]

\* lexical_util::algorithm::copy_to_dst: src over the head of dst.
copy_to_dst(dst, src) ==
    [bytes |-> [k \in 1..Len(dst) |-> IF k <= Len(src) THEN src[k] ELSE dst[k]],
     len |-> Len(src)]

\* MaybeUninit::uninit(): a scratch byte never written.
Uninit == "uninit"

\* The arguments of a call: the type, the value, the radix and the
\* caller's buffer (128 bytes, holding whatever it held before).
InitCompact ==
    /\ \E bits \in CompactBits, radix \in 2..36, fill \in {0, 48} :
         \E value \in {FromNat(n, bits \div 8) : n \in 0..MaxValue}
                        \cup {FromNat(12345, bits \div 8) : b \in {bits} \ {8}}
                        \cup {MaxOf(bits \div 8)} :
            cw = [pc |-> "call", bits |-> bits, self |-> value, radix |-> radix,
                  value |-> value, digits |-> [k \in 0..127 |-> Uninit], index |-> 128,
                  buffer |-> [k \in 1..128 |-> fill], ret |-> None]
    /\ IterIdle
    /\ fw = FwIdle

\* assert!(Self::BITS <= 128), the scratch area and its index.
CompactEnter ==
    /\ cw.pc = "call"
    /\ cw' = [cw EXCEPT !.pc = IF cw.bits <= 128 THEN "loop" ELSE "panic"]
    /\ IterUnchanged /\ UNCHANGED fw

\* index -= 1; digits[index].write(digit_to_char(r)).
write_digit(c, r) ==
    [c EXCEPT !.index = @ - 1, !.digits[c.index - 1] = digit_to_char(r)]

\* One turn of `while value >= radix`.
CompactLoop ==
    /\ cw.pc = "loop"
    /\ value_ge(cw.value, cw.radix)
    /\ cw' = IF cw.index = 0
             THEN [cw EXCEPT !.pc = "panic"]
             ELSE LET d == div_rem(cw.value, cw.radix, 0)
                  IN  [write_digit(cw, d.r) EXCEPT !.value = d.q]
    /\ IterUnchanged /\ UNCHANGED fw

\* The last digit, once value < radix.
CompactLast ==
    /\ cw.pc = "loop"
    /\ ~value_ge(cw.value, cw.radix)
    /\ cw' = IF cw.index = 0
             THEN [cw EXCEPT !.pc = "panic"]
             ELSE [write_digit(cw, div_rem(cw.value, cw.radix, 0).r) EXCEPT !.pc = "copy"]
    /\ IterUnchanged /\ UNCHANGED fw

\* copy_to_dst(buffer, digits[index..]).
CompactCopy ==
    /\ cw.pc = "copy"
    /\ LET initialized == [k \in 1..(128 - cw.index) |-> cw.digits[cw.index + k - 1]]
           c == copy_to_dst(cw.buffer, initialized)
       IN  cw' = [cw EXCEPT !.pc = "done", !.buffer = c.bytes, !.ret = c.len]
    /\ IterUnchanged /\ UNCHANGED fw

NextCompact == CompactEnter \/ CompactLoop \/ CompactLast \/ CompactCopy

\* One call of Compact::compact, step by step.
SpecCompact == InitCompact /\ [][NextCompact]_vars

\* The call runs on: a thread that can take a step takes it.
SpecCompactFair == SpecCompact /\ WF_vars(NextCompact)

\* ----------------------------------------------------------------- float writer

\* A float is its width, its sign bit, its class and (for a finite non-zero
\* value) its magnitude, a positive integer standing for the exponent and
\* significand bits.
MaxMant == 3

Floats ==
    [bits : {32, 64}, sign : BOOLEAN, class : {"zero", "inf", "nan"}, mant : {0}]
    \cup [bits : {32, 64}, sign : BOOLEAN, class : {"finite"}, mant : 1..MaxMant]

\* Options::nan_string / inf_string: the default literal, or none.
NaNLiteral == <<78, 97, 78>>
InfLiteral == <<105, 110, 102>>
NoLiteral == <<0>>
WriteOptions == [nan_string : {NoLiteral, NaNLiteral}, inf_string : {NoLiteral, InfLiteral}]

\* The (radix, exponent_base) pairs drawn.
RadixPairs ==
    {<<10, 10>>, <<2, 2>>, <<4, 4>>, <<16, 16>>, <<32, 32>>, <<3, 3>>, <<36, 36>>,
     <<4, 2>>, <<8, 2>>, <<16, 2>>, <<32, 2>>, <<16, 4>>, <<8, 4>>, <<10, 2>>}

\* The float writer's view of a format.
WriteFormats ==
    [radix : {p[1] : p \in RadixPairs}, exponent_base : {p[2] : p \in RadixPairs},
     required_mantissa_sign : BOOLEAN]

\* The cargo features the crate is built with ("radix" implies "power-of-two").
FeatureSets ==
    {{}, {"format"}, {"power-of-two"}, {"power-of-two", "format"},
     {"power-of-two", "radix"}, {"power-of-two", "radix", "format"}}

\* NumberFormat::is_valid, as far as the float writer's fields go: the
\* radix and the exponent base are among those the build supports, and a
\* non-default flag needs the "format" feature.
format_is_valid(F, features) ==
    LET supported == IF "radix" \in features THEN 2..36
                     ELSE IF "power-of-two" \in features THEN {2, 4, 8, 10, 16, 32}
                     ELSE {10}
    IN  /\ F.radix \in supported
        /\ F.exponent_base \in supported
        /\ F.required_mantissa_sign => "format" \in features

\* self < Self::ZERO on an IEEE-754 float.
lt_zero(f) == f.sign /\ f.class \in {"finite", "inf"}

\* -self.
neg(f) == [f EXCEPT !.sign = ~@]

\* RawFloat::is_special / is_nan.
is_special(f) == f.class \in {"inf", "nan"}
is_nan(f) == f.class = "nan"

\* The digits of the natural number n in `radix`, most significant first.
RECURSIVE NatDigits(_, _)
NatDigits(n, radix) ==
    IF n < radix THEN <<digit_to_char(n)>>
    ELSE Append(NatDigits(n \div radix, radix), digit_to_char(n % radix))

\* What a back-end (decimal, binary, hex, radix) writes for a finite,
\* non-negative float: its magnitude, a decimal point and a fraction digit.
backend_text(float, F) == NatDigits(float.mant, F.radix) \o <<46, 48>>

\* write_special writing nothing for a disabled literal.
write_special_mut(special) ==
    IF special # NoLiteral
    THEN [bytes |-> special, len |-> Len(special), panic |-> FALSE]
    ELSE [bytes |-> <<>>, len |-> 0, panic |-> FALSE]

\* write_special: the literal copied to bytes, or a panic when it is none.
write_special(special) ==
    IF special # NoLiteral
    THEN [bytes |-> special, len |-> Len(special), panic |-> FALSE]
    ELSE [bytes |-> <<>>, len |-> 0, panic |-> TRUE]

\* write_nan / write_inf: count + write_special(..).
write_nan(options, count) ==
    LET w == write_special(options.nan_string)
    IN  [bytes |-> w.bytes, len |-> count + w.len, panic |-> w.panic]

write_inf(options, count) ==
    LET w == write_special(options.inf_string)
    IN  [bytes |-> w.bytes, len |-> count + w.len, panic |-> w.panic]

\* The pairs the hex back-end takes.
HexPairs == {<<4, 2>>, <<8, 2>>, <<16, 2>>, <<32, 2>>, <<16, 4>>}

\* The back-end selection asking for a power-of-two radix before it
\* compares the radix with the exponent base.
select_backend_mut(F, features) ==
    IF "power-of-two" \in features
    THEN IF F.radix = 10 THEN "decimal"
         ELSE IF F.radix \in {2, 4, 8, 16, 32} THEN "binary"
         ELSE IF F.radix # F.exponent_base THEN "hex"
         ELSE "radix"
    ELSE "decimal"

\* The three cfg variants of the back-end selection for a finite value.
select_backend(F, features) ==
    IF "radix" \in features
    THEN IF F.radix = 10 THEN "decimal"
         ELSE IF F.radix # F.exponent_base THEN "hex"
         ELSE IF F.radix \in {2, 4, 8, 16, 32} THEN "binary"
         ELSE "radix"
    ELSE IF "power-of-two" \in features
    THEN IF F.radix = 10 THEN "decimal"
         ELSE IF F.radix # F.exponent_base THEN "hex"
         ELSE "binary"
    ELSE "decimal"

\* The sign written at bytes[0], and the float handed on.
write_sign(self, F, features) ==
    IF lt_zero(self) THEN [float |-> neg(self), count |-> 1, bytes |-> <<45>>]
    ELSE IF "format" \in features /\ F.required_mantissa_sign
    THEN [float |-> self, count |-> 1, bytes |-> <<43>>]
    ELSE [float |-> self, count |-> 0, bytes |-> <<>>]

\* WriteFloat::write_float: the bytes written, the length returned, the
\* back-end taken, or a panic.
write_float(self, F, options, features) ==
    LET panic == [bytes |-> <<>>, len |-> None, backend |-> "none", panic |-> TRUE]
    IN  IF ~format_is_valid(F, features) THEN panic
        ELSE IF ~(self.bits <= 64) THEN panic
        ELSE IF "power-of-two" \in features /\ F.radix # F.exponent_base
                /\ <<F.radix, F.exponent_base>> \notin HexPairs THEN panic
        ELSE LET s == write_sign(self, F, features)
             IN  IF ~is_special(self)
                 THEN LET text == backend_text(s.float, F)
                      IN  [bytes |-> s.bytes \o text, len |-> s.count + Len(text),
                           backend |-> select_backend(F, features), panic |-> FALSE]
                 ELSE LET w == IF is_nan(self) THEN write_nan(options, s.count)
                                               ELSE write_inf(options, s.count)
                      IN  IF w.panic THEN panic
                          ELSE [bytes |-> s.bytes \o w.bytes, len |-> w.len,
                                backend |-> "special", panic |-> FALSE]

\* The value of the digits of `text` in `radix`, up to the first byte that
\* is no digit.
RECURSIVE parse_digits(_, _, _)
parse_digits(text, radix, acc) ==
    IF text = <<>> \/ DigitValue(Head(text)) >= radix THEN acc
    ELSE parse_digits(Tail(text), radix, acc * radix + DigitValue(Head(text)))

\* from_lexical for a float: the sign, then a special literal or the digits.
parse_float(text, bits, F, options) ==
    LET negative == text # <<>> /\ Head(text) = 45
        signed == text # <<>> /\ Head(text) \in {43, 45}
        rest == IF signed THEN Tail(text) ELSE text
        mant == parse_digits(rest, F.radix, 0)
    IN  IF rest = options.nan_string
        THEN [bits |-> bits, sign |-> negative, class |-> "nan", mant |-> 0]
        ELSE IF rest = options.inf_string
        THEN [bits |-> bits, sign |-> negative, class |-> "inf", mant |-> 0]
        ELSE [bits |-> bits, sign |-> negative,
              class |-> IF mant = 0 THEN "zero" ELSE "finite", mant |-> mant]

\* The arguments of a call, for any build of the crate.
InitWriteFloat ==
    /\ \E self \in Floats, F \in WriteFormats, options \in WriteOptions,
          features \in FeatureSets :
         /\ <<F.radix, F.exponent_base>> \in RadixPairs
         /\ fw = [pc |-> "call", self |-> self, format |-> F, options |-> options,
                  features |-> features, bytes |-> <<>>, len |-> None,
                  backend |-> "none", parsed |-> self]
    /\ IterIdle
    /\ cw = CwIdle

\* value.write_float::<FORMAT>(bytes, options)
FwWrite ==
    /\ fw.pc = "call"
    /\ LET w == write_float(fw.self, fw.format, fw.options, fw.features)
       IN  fw' = [fw EXCEPT !.pc = IF w.panic THEN "panic" ELSE "written",
                            !.bytes = w.bytes, !.len = w.len, !.backend = w.backend]
    /\ IterUnchanged /\ UNCHANGED cw

\* The written text is parsed back, under the same format and options.
FwParse ==
    /\ fw.pc = "written"
    /\ fw' = [fw EXCEPT !.pc = "parsed",
                        !.parsed = parse_float(fw.bytes, fw.self.bits, fw.format, fw.options)]
    /\ IterUnchanged /\ UNCHANGED cw

NextWriteFloat == FwWrite \/ FwParse

\* One float written, then read back.
SpecWriteFloat == InitWriteFloat /\ [][NextWriteFloat]_vars

\* ------------------------------------------------------------ hex float writer

\* hex::write_float and hex::write_float_scientific, one call of which is
\* held in fw. An Option<NonZero..> of the options is 0 for none.

\* The binary exponents drawn are -MaxHexExp..MaxHexExp.
MaxHexExp == 6

\* The mantissas drawn, as float.mantissa() leaves them after
\* truncate_and_round.
HexMantissas == {0, 1, 3, 16}

\* The length of the destination (at least BUFFER_SIZE in the code).
HexBufferLen == 12

\* The format as the hex back-end reads it. Without the "format" feature
\* every flag has its default, false.
HexFlags ==
    [no_exponent_notation : BOOLEAN, required_exponent_notation : BOOLEAN,
     no_exponent_without_fraction : BOOLEAN, required_exponent_sign : BOOLEAN]

NoHexFlags ==
    [no_exponent_notation |-> FALSE, required_exponent_notation |-> FALSE,
     no_exponent_without_fraction |-> FALSE, required_exponent_sign |-> FALSE]

\* The options the hex back-end reads.
HexOptions ==
    [negative_exponent_break : {0, -2}, positive_exponent_break : {0, 2},
     min_significant_digits : {0, 1, 3}, trim_floats : BOOLEAN,
     decimal_point : {46}, exponent : {94}]

\* fast_log2 of a power of two.
fast_log2(x) ==
    CASE x = 2 -> 1 [] x = 4 -> 2 [] x = 8 -> 3 [] x = 16 -> 4 [] x = 32 -> 5

\* fast_ceildiv of a non-negative value.
fast_ceildiv(value, base) == (value + base - 1) \div base

\* calculate_shl: the bits missing to the next digit boundary below exp.
calculate_shl(exp, bits_per_digit) ==
    IF exp < 0
    THEN LET shr == (-exp) % bits_per_digit
         IN  IF shr = 0 THEN shr ELSE bits_per_digit - shr
    ELSE exp % bits_per_digit

\* The number of bits of a mantissa: BITS - leading_zeros.
RECURSIVE BitLength(_)
BitLength(m) == IF m = 0 THEN 0 ELSE 1 + BitLength(m \div 2)

\* 2^n.
RECURSIVE Pow2(_)
Pow2(n) == IF n = 0 THEN 1 ELSE 2 * Pow2(n - 1)

\* -x of an i32 (wrapping_neg).
wrapping_neg(x) == IF x = -2147483647 - 1 THEN x ELSE -x

\* scale_sci_exp with the floor taken on the wrong side for a negative
\* exponent.
scale_sci_exp_mut(sci_exp, bits_per_digit, bits_per_base) ==
    IF sci_exp < 0
    THEN wrapping_neg((((-sci_exp) \div bits_per_digit) * bits_per_digit) \div bits_per_base)
    ELSE ((sci_exp \div bits_per_digit) * bits_per_digit) \div bits_per_base

\* hex::scale_sci_exp.
scale_sci_exp(sci_exp, bits_per_digit, bits_per_base) ==
    IF sci_exp < 0
    THEN LET neg_sci_exp == wrapping_neg(sci_exp)
             floor == fast_ceildiv(neg_sci_exp, bits_per_digit)
         IN  wrapping_neg((floor * bits_per_digit) \div bits_per_base)
    ELSE LET floor == sci_exp \div bits_per_digit
         IN  (floor * bits_per_digit) \div bits_per_base

\* bytes[at..at + len(src)] = src, with at counted from 0.
write_at(bytes, at, src) ==
    [k \in 1..Len(bytes) |->
        IF k - 1 >= at /\ k - 1 < at + Len(src) THEN src[k - at] ELSE bytes[k]]

\* rtrim_char_count: the number of bytes equal to c at the end of slc.
RECURSIVE rtrim_char_count(_, _)
rtrim_char_count(slc, c) ==
    IF slc # <<>> /\ slc[Len(slc)] = c
    THEN 1 + rtrim_char_count(SubSeq(slc, 1, Len(slc) - 1), c)
    ELSE 0

\* A call of hex::write_float: the float comes from WriteFloat::write_float,
\* non-negative and not special, the destination holds what the caller left.
InitHex ==
    /\ \E mantissa \in HexMantissas, exp \in (-MaxHexExp)..MaxHexExp,
          pair \in HexPairs, features \in {{"power-of-two"}, {"power-of-two", "format"}},
          flags \in HexFlags, options \in HexOptions, fill \in {0, 48} :
         /\ "format" \notin features => flags = NoHexFlags
         /\ fw = [pc |-> "hex", mantissa |-> mantissa, exp |-> exp,
                  radix |-> pair[1], exponent_base |-> pair[2], format |-> flags,
                  features |-> features, options |-> options,
                  bytes |-> [k \in 1..HexBufferLen |-> fill], fill |-> fill,
                  sci_exp |-> 0, count |-> 0, exact_count |-> 0, cursor |-> 0,
                  scaled_sci_exp |-> 0, notation |-> "none", ret |-> None]
    /\ IterIdle
    /\ cw = CwIdle

\* format.mantissa_radix() and format.exponent_base() in bits.
bits_per_digit(f) == fast_log2(f.radix)

bits_per_base(f) == fast_log2(f.exponent_base)

\* The break of an option, or its default.
map_or(default, x) == IF x = 0 THEN default ELSE x

\* hex::write_float's scientific exponent: exp + mantissa_bits - 1, and 0 for
\* an actual zero.
hex_sci_exp(f) ==
    IF f.mantissa = 0 THEN 0 ELSE f.exp + BitLength(f.mantissa) - 1

\* The branch of hex::write_float with the test of no_exponent_notation
\* left out.
hex_notation_mut(f, sci_exp) ==
    IF \/ f.format.required_exponent_notation
       \/ sci_exp < map_or(-5, f.options.negative_exponent_break)
       \/ sci_exp > map_or(9, f.options.positive_exponent_break)
    THEN "scientific"
    ELSE IF sci_exp >= 0 THEN "positive" ELSE "negative"

\* The branch of hex::write_float: the writer it calls.
hex_notation(f, sci_exp) ==
    IF /\ ~f.format.no_exponent_notation
       /\ \/ f.format.required_exponent_notation
          \/ sci_exp < map_or(-5, f.options.negative_exponent_break)
          \/ sci_exp > map_or(9, f.options.positive_exponent_break)
    THEN "scientific"
    ELSE IF sci_exp >= 0 THEN "positive" ELSE "negative"

\* mantissa << shl, the value whose digits are written.
hex_value(f) == f.mantissa * Pow2(calculate_shl(f.exp, bits_per_digit(f)))

\* write_mantissa: the digits of the value in the mantissa radix.
write_mantissa(f) == NatDigits(hex_value(f), f.radix)

\* write_exponent: the digits of the exponent, in decimal.
write_exponent(positive_exp) == NatDigits(positive_exp, 10)

\* hex::write_float up to its branch.
HexWriteFloat ==
    /\ fw.pc = "hex"
    /\ fw' = [fw EXCEPT !.sci_exp = hex_sci_exp(fw),
                         !.pc = hex_notation(fw, hex_sci_exp(fw))]
    /\ IterUnchanged
    /\ UNCHANGED cw

\* write_float_scientific: the digits, the decimal point after the first and
\* the count of the digits without their trailing zeros.
digits_written(f) ==
    write_at(write_at(write_at(f.bytes, 1, write_mantissa(f)),
                      0, <<write_mantissa(f)[1]>>),
             1, <<f.options.decimal_point>>)

digits_count(f) ==
    Len(write_mantissa(f))
      - rtrim_char_count(SubSeq(digits_written(f), 3, Len(write_mantissa(f)) + 1), 48)

max(a, b) == IF a >= b THEN a ELSE b

exact_count(f, count) ==
    IF f.options.min_significant_digits # 0
    THEN max(f.options.min_significant_digits, count)
    ELSE count

HexWriteMantissa ==
    /\ fw.pc = "scientific"
    /\ fw' = [fw EXCEPT !.bytes = digits_written(fw),
                         !.count = digits_count(fw),
                         !.exact_count = exact_count(fw, digits_count(fw)),
                         !.cursor = digits_count(fw) + 1,
                         !.pc = "trailing"]
    /\ IterUnchanged
    /\ UNCHANGED cw

\* write_float_scientific's trailing digits with the padding tried before the
\* trimming of the decimal point.
trailing_mut(f) ==
    IF f.exact_count > f.count /\ f.exact_count >= 2
    THEN [f EXCEPT !.bytes = write_at(f.bytes, f.cursor,
                                      [k \in 1..(f.exact_count + 1 - f.cursor) |-> 48]),
                   !.cursor = f.exact_count + 1]
    ELSE IF ~f.format.no_exponent_without_fraction /\ f.cursor = 2
            /\ f.options.trim_floats
    THEN [f EXCEPT !.cursor = f.cursor - 1]
    ELSE IF f.exact_count < 2
    THEN [f EXCEPT !.bytes = write_at(f.bytes, f.cursor, <<48>>),
                   !.cursor = f.cursor + 1]
    ELSE f

\* write_float_scientific's trailing digits.
trailing(f) ==
    IF ~f.format.no_exponent_without_fraction /\ f.cursor = 2
       /\ f.options.trim_floats
    THEN [f EXCEPT !.cursor = f.cursor - 1]
    ELSE IF f.exact_count < 2
    THEN [f EXCEPT !.bytes = write_at(f.bytes, f.cursor, <<48>>),
                   !.cursor = f.cursor + 1]
    ELSE IF f.exact_count > f.count
    THEN [f EXCEPT !.bytes = write_at(f.bytes, f.cursor,
                                      [k \in 1..(f.exact_count + 1 - f.cursor) |-> 48]),
                   !.cursor = f.exact_count + 1]
    ELSE f

HexTrailing ==
    /\ fw.pc = "trailing"
    /\ fw' = [trailing(fw) EXCEPT !.pc = "exponent"]
    /\ IterUnchanged
    /\ UNCHANGED cw

\* The sign of the exponent without the '+' a format may require.
exponent_sign_mut(f, scaled) == IF scaled < 0 THEN <<45>> ELSE <<>>

\* The sign of the exponent: '-', '+' for a format that requires it, or none.
exponent_sign(f, scaled) ==
    IF scaled < 0 THEN <<45>>
    ELSE IF "format" \in f.features /\ f.format.required_exponent_sign THEN <<43>>
    ELSE <<>>

\* The exponent character, the sign and the digits of the exponent.
exponent_text(f, scaled) ==
    <<f.options.exponent>> \o exponent_sign(f, scaled)
      \o write_exponent(IF scaled < 0 THEN wrapping_neg(scaled) ELSE scaled)

\* write_float_scientific's exponent, and its return.
HexExponent ==
    /\ fw.pc = "exponent"
    /\ fw' = [fw EXCEPT
                !.scaled_sci_exp =
                    scale_sci_exp(fw.sci_exp, bits_per_digit(fw), bits_per_base(fw)),
                !.bytes = write_at(fw.bytes, fw.cursor,
                    exponent_text(fw, scale_sci_exp(fw.sci_exp, bits_per_digit(fw),
                                                    bits_per_base(fw)))),
                !.ret = fw.cursor + Len(exponent_text(fw,
                    scale_sci_exp(fw.sci_exp, bits_per_digit(fw), bits_per_base(fw)))),
                !.notation = "scientific",
                !.pc = "done"]
    /\ IterUnchanged
    /\ UNCHANGED cw

\* A sequence of n '0' bytes.
zeros(n) == [k \in 1..n |-> 48]

\* The digits without their trailing '0' bytes.
rtrim_zeros(digits) == SubSeq(digits, 1, Len(digits) - rtrim_char_count(digits, 48))

\* The fraction of a positional layout: the decimal point and the digits, a
\* single '0' for none, or nothing at all when floats are trimmed.
fraction_text(f, digits) ==
    IF digits # <<>> THEN <<f.options.decimal_point>> \o digits
    ELSE IF f.options.trim_floats THEN <<>>
    ELSE <<f.options.decimal_point, 48>>

\* The digits ahead of the decimal point in the positive-exponent layout.
leading_digits(f) == f.sci_exp \div bits_per_digit(f) + 1

\* The positive-exponent layout: the integer part, padded with zeros to its
\* length, then the fraction.
positive_exponent_text(f, digits) ==
    IF Len(digits) <= leading_digits(f)
    THEN digits \o zeros(leading_digits(f) - Len(digits)) \o fraction_text(f, <<>>)
    ELSE SubSeq(digits, 1, leading_digits(f))
           \o fraction_text(f, rtrim_zeros(SubSeq(digits, leading_digits(f) + 1, Len(digits))))

\* The negative-exponent layout: "0.", the leading zeros, the digits.
negative_exponent_text(f, digits) ==
    <<48, f.options.decimal_point>>
      \o zeros(fast_ceildiv(-f.sci_exp, bits_per_digit(f)) - 1)
      \o rtrim_zeros(digits)

\* A positional writer returns after writing its text.
HexPositional(notation, text) ==
    /\ fw.pc = notation
    /\ fw' = [fw EXCEPT !.bytes = write_at(fw.bytes, 0, text), !.ret = Len(text),
                         !.notation = notation, !.pc = "done"]
    /\ IterUnchanged
    /\ UNCHANGED cw

\* binary::write_float_positive_exponent.
HexPositiveExponent ==
    HexPositional("positive", positive_exponent_text(fw, write_mantissa(fw)))

\* binary::write_float_negative_exponent.
HexNegativeExponent ==
    HexPositional("negative", negative_exponent_text(fw, write_mantissa(fw)))

NextHex ==
    \/ HexWriteFloat
    \/ HexWriteMantissa
    \/ HexTrailing
    \/ HexExponent
    \/ HexPositiveExponent
    \/ HexNegativeExponent

SpecHex == InitHex /\ [][NextHex]_vars

\* The text a finished call of the hex writer returned.
hex_text(f) == SubSeq(f.bytes, 1, f.ret)

\* ------------------------------------------------------------ large powers

\* atof::algorithm::large_powers. TLC's integers have 31 bits, so a u32 limb
\* is written u32(hi, lo) for the decimal numeral hi followed by the five
\* digits lo (3793632897 is u32(37936, 32897)), and is held as its two 16-bit
\* halves, the low half first.
u32(hi, lo) == <<(hi * 34464 + lo) % 65536, hi + (hi * 34464 + lo) \div 65536>>

\* Large powers for base3 operations.
POW3 ==
    << <<u32(0, 3)>>,
       <<u32(0, 9)>>,
       <<u32(0, 81)>>,
       <<u32(0, 6561)>>,
       <<u32(430, 46721)>>,
       <<u32(37936, 32897), u32(4, 31439)>>,
       <<u32(20383, 49057), u32(20333, 30060), u32(14567, 79151), u32(0, 43)>>,
       <<u32(23240, 68865), u32(21518, 14273), u32(42192, 00356), u32(38310, 09148),
         u32(15150, 07727), u32(12230, 69914), u32(0, 1878)>>,
       <<u32(1206, 48705), u32(35242, 88303), u32(1233, 05297), u32(19735, 52606),
         u32(15826, 77123), u32(42751, 92449), u32(2233, 46561), u32(33500, 64824),
         u32(15004, 83036), u32(12576, 05964), u32(13679, 13622), u32(28788, 50248),
         u32(35, 27953)>>,
       <<u32(19955, 65057), u32(4932, 27282), u32(11245, 01772), u32(19877, 02555),
         u32(12931, 51165), u32(9015, 80639), u32(31736, 78675), u32(24916, 43407),
         u32(28587, 89928), u32(41906, 66723), u32(32342, 80160), u32(15520, 91534),
         u32(10987, 66192), u32(5352, 63123), u32(6714, 27889), u32(24288, 27667),
         u32(4421, 54954), u32(38126, 08783), u32(29972, 09821), u32(8823, 92610),
         u32(7268, 42283), u32(37842, 54415), u32(18689, 08668), u32(11672, 84160),
         u32(39368, 43162), u32(0, 2897)>> >>

\* Large powers for base5 operations.
POW5 ==
    << <<u32(0, 5)>>,
       <<u32(0, 25)>>,
       <<u32(0, 625)>>,
       <<u32(3, 90625)>>,
       <<u32(22640, 35265), u32(0, 35)>>,
       <<u32(22427, 03233), u32(7621, 34875), u32(0, 1262)>>,
       <<u32(32114, 03009), u32(18492, 24548), u32(36684, 16493), u32(39132, 84084),
         u32(15, 93091)>>,
       <<u32(7815, 32673), u32(649, 85353), u32(2530, 49085), u32(5948, 63151),
         u32(35536, 21484), u32(32886, 52808), u32(31675, 96762), u32(27883, 92729),
         u32(39111, 32675), u32(0, 590)>>,
       <<u32(25531, 83233), u32(32015, 33787), u32(36381, 40786), u32(3033, 78311),
         u32(18097, 31782), u32(34777, 61648), u32(35833, 67183), u32(6492, 28654),
         u32(29154, 60784), u32(4879, 29380), u32(10110, 12442), u32(16776, 77582),
         u32(34281, 52256), u32(17108, 78487), u32(14383, 94610), u32(21619, 52759),
         u32(41009, 10556), u32(16083, 14830), u32(3, 49175)>> >>

\* Large powers for base7 operations.
POW7 ==
    << <<u32(0, 7)>>,
       <<u32(0, 49)>>,
       <<u32(0, 2401)>>,
       <<u32(57, 64801)>>,
       <<u32(27686, 00449), u32(0, 7737)>>,
       <<u32(18550, 11585), u32(8092, 51672), u32(598, 71144)>>,
       <<u32(32335, 10913), u32(4291, 35816), u32(21622, 42590), u32(35942, 21799),
         u32(42659, 59880), u32(8, 34593)>>,
       <<u32(4673, 32097), u32(1403, 97015), u32(20402, 15064), u32(15425, 55902),
         u32(6423, 71654), u32(33661, 06563), u32(8316, 99702), u32(40902, 48544),
         u32(13312, 05625), u32(26321, 89658), u32(7624, 31610), u32(0, 162)>>,
       <<u32(213, 54497), u32(1355, 86989), u32(2824, 07512), u32(2177, 55548),
         u32(38019, 57565), u32(17690, 47343), u32(30621, 75267), u32(10768, 44155),
         u32(11248, 73580), u32(21476, 41037), u32(10861, 67164), u32(31853, 25477),
         u32(32477, 42386), u32(20774, 48856), u32(13510, 03107), u32(24944, 68834),
         u32(14255, 99169), u32(17024, 21937), u32(6272, 10051), u32(18276, 25163),
         u32(11575, 72577), u32(23500, 50876), u32(0, 26301)>> >>

\* Large powers for base11 operations.
POW11 ==
    << <<u32(0, 11)>>,
       <<u32(0, 121)>>,
       <<u32(0, 14641)>>,
       <<u32(2143, 58881)>>,
       <<u32(7724, 79681), u32(106, 98505)>>,
       <<u32(28753, 11489), u32(34561, 63242), u32(14296, 12321), u32(0, 26649)>>,
       <<u32(25859, 05921), u32(20734, 80325), u32(16368, 06860), u32(33707, 23472),
         u32(39479, 38656), u32(32335, 53771), u32(7101, 86941)>>,
       <<u32(7253, 90849), u32(9835, 11997), u32(15464, 66724), u32(14521, 73552),
         u32(41108, 85543), u32(35949, 65768), u32(31097, 48563), u32(37542, 93795),
         u32(42687, 88147), u32(29945, 26333), u32(34902, 77564), u32(33824, 69739),
         u32(8339, 85310), u32(1174, 31742)>>,
       <<u32(42675, 18977), u32(34187, 04948), u32(41459, 83365), u32(26338, 89206),
         u32(14010, 15784), u32(21689, 55970), u32(40234, 91585), u32(25245, 75715),
         u32(10492, 83211), u32(4457, 23862), u32(24347, 94608), u32(5801, 79552),
         u32(29855, 79862), u32(28348, 66824), u32(4806, 27468), u32(21919, 04507),
         u32(9969, 37640), u32(29359, 62584), u32(18431, 45488), u32(15109, 31281),
         u32(3274, 39189), u32(272, 67795), u32(1291, 72641), u32(3391, 83348),
         u32(38716, 93391), u32(36546, 42246), u32(18002, 39665), u32(32, 10784)>> >>

\* Large powers for base13 operations.
POW13 ==
    << <<u32(0, 13)>>,
       <<u32(0, 169)>>,
       <<u32(0, 28561)>>,
       <<u32(8157, 30721)>>,
       <<u32(17785, 25249), u32(1549, 29377)>>,
       <<u32(17808, 97921), u32(9126, 25740), u32(574, 55785), u32(55, 88660)>>,
       <<u32(9545, 28001), u32(25524, 60193), u32(8110, 89956), u32(10657, 75915),
         u32(32551, 64516), u32(10079, 72746), u32(1185, 68612), u32(0, 7272)>>,
       <<u32(26284, 44673), u32(16678, 25520), u32(34804, 82745), u32(17928, 07966),
         u32(29821, 60738), u32(22164, 43239), u32(14147, 60918), u32(17410, 36037),
         u32(37050, 43424), u32(1361, 35250), u32(3951, 10073), u32(10846, 41480),
         u32(24529, 73265), u32(21832, 83898), u32(528, 82385)>>,
       <<u32(6853, 60129), u32(12491, 45954), u32(6456, 30652), u32(19950, 19793),
         u32(32530, 88488), u32(18040, 68787), u32(3923, 20294), u32(13432, 67562),
         u32(5070, 87513), u32(23302, 57028), u32(36587, 36453), u32(30729, 03141),
         u32(23777, 02882), u32(42403, 73633), u32(26109, 33614), u32(25633, 21149),
         u32(12400, 24358), u32(11740, 15769), u32(3129, 09694), u32(37647, 72638),
         u32(5105, 00093), u32(11673, 71064), u32(5639, 30725), u32(30869, 97765),
         u32(15455, 00121), u32(24292, 33725), u32(688, 04066), u32(18639, 90200),
         u32(32963, 13385), u32(6, 51121)>> >>

\* Large powers for base17 operations.
POW17 ==
    << <<u32(0, 17)>>,
       <<u32(0, 289)>>,
       <<u32(0, 83521)>>,
       <<u32(26807, 90145), u32(0, 1)>>,
       <<u32(16147, 72481), u32(27398, 82033), u32(0, 2)>>,
       <<u32(22764, 54913), u32(27710, 29215), u32(736, 58097), u32(41174, 42370), u32(0, 6)>>,
       <<u32(34920, 13057), u32(34807, 31623), u32(21440, 81192), u32(10092, 76412),
         u32(42541, 73166), u32(41519, 23560), u32(4529, 49210), u32(18169, 56013), u32(0, 48)>>,
       <<u32(32773, 09953), u32(18648, 47191), u32(7078, 34086), u32(13654, 92312),
         u32(40966, 42650), u32(26282, 41885), u32(10408, 97072), u32(36476, 18881),
         u32(42877, 72355), u32(1269, 27969), u32(36957, 47218), u32(10412, 08948),
         u32(5240, 92261), u32(14849, 45811), u32(36974, 69546), u32(33977, 36009),
         u32(0, 2344)>>,
       <<u32(3176, 89857), u32(14506, 65849), u32(17757, 42626), u32(7928, 17246),
         u32(7357, 51321), u32(15535, 74078), u32(1602, 84371), u32(18732, 56746),
         u32(20854, 56896), u32(29068, 91001), u32(23674, 33931), u32(25701, 34778),
         u32(35203, 34249), u32(999, 50267), u32(4757, 20041), u32(41784, 98415),
         u32(9256, 36968), u32(38801, 90760), u32(40903, 50540), u32(19131, 95868),
         u32(7379, 80718), u32(21498, 16287), u32(33138, 79437), u32(14627, 12522),
         u32(30663, 69386), u32(24880, 96894), u32(20555, 34827), u32(19294, 03434),
         u32(10421, 56826), u32(1642, 56614), u32(6858, 27684), u32(12406, 52339),
         u32(54, 98045)>> >>

\* Large powers for base19 operations.
POW19 ==
    << <<u32(0, 19)>>,
       <<u32(0, 361)>>,
       <<u32(1, 30321)>>,
       <<u32(40986, 61153), u32(0, 3)>>,
       <<u32(16374, 15489), u32(27334, 90537), u32(0, 15)>>,
       <<u32(16747, 73633), u32(21203, 89729), u32(21255, 75713), u32(21400, 41202),
         u32(0, 244)>>,
       <<u32(8510, 69185), u32(9531, 20046), u32(34229, 11417), u32(32496, 71984),
         u32(12531, 22465), u32(3875, 58350), u32(21212, 85446), u32(17293, 66164),
         u32(0, 59779)>>,
       <<u32(23869, 24033), u32(1903, 45838), u32(29859, 03449), u32(25754, 03751),
         u32(36632, 80926), u32(32258, 53746), u32(41505, 72491), u32(6032, 54694),
         u32(16741, 72707), u32(36730, 07190), u32(11760, 51141), u32(38025, 13312),
         u32(19623, 88533), u32(4822, 03478), u32(24039, 94182), u32(5305, 93434),
         u32(35735, 76981)>> >>

\* Large powers for base23 operations.
POW23 ==
    << <<u32(0, 23)>>,
       <<u32(0, 529)>>,
       <<u32(2, 79841)>>,
       <<u32(10015, 73953), u32(0, 18)>>,
       <<u32(18549, 75105), u32(19304, 88089), u32(0, 332)>>,
       <<u32(16335, 23969), u32(25525, 72211), u32(25503, 03091), u32(28115, 46753),
         u32(1, 10522)>>,
       <<u32(12108, 55937), u32(14365, 06257), u32(7880, 91685), u32(42558, 17435),
         u32(25004, 10572), u32(23617, 23765), u32(26180, 86504), u32(42032, 83319),
         u32(36253, 22590), u32(0, 2)>>,
       <<u32(33908, 58241), u32(5, 38851), u32(32913, 69078), u32(4924, 42738),
         u32(28506, 38734), u32(30298, 03664), u32(23786, 38741), u32(7559, 66606),
         u32(1850, 69185), u32(27489, 24587), u32(35474, 56468), u32(21151, 04919),
         u32(33981, 14034), u32(30223, 23801), u32(36934, 45824), u32(16461, 13784),
         u32(27098, 08682), u32(3815, 05921), u32(0, 8)>> >>

\* Large powers for base29 operations.
POW29 ==
    << <<u32(0, 29)>>,
       <<u32(0, 841)>>,
       <<u32(7, 07281)>>,
       <<u32(20302, 06625), u32(0, 116)>>,
       <<u32(17977, 10145), u32(38161, 68866), u32(0, 13565)>>,
       <<u32(42194, 25409), u32(22651, 42903), u32(41195, 64573), u32(15704, 54940),
         u32(1840, 33331)>>,
       <<u32(39691, 80929), u32(13404, 92553), u32(17391, 83727), u32(1055, 69977),
         u32(17672, 57366), u32(17395, 19195), u32(38746, 17455), u32(37711, 11571),
         u32(17932, 20428), u32(78, 85570)>>,
       <<u32(18456, 76545), u32(36085, 13765), u32(12943, 41313), u32(3444, 89966),
         u32(5667, 74291), u32(4276, 80924), u32(1636, 28113), u32(4224, 50508),
         u32(32224, 65417), u32(37274, 50692), u32(28612, 54789), u32(8833, 44622),
         u32(16891, 93932), u32(16723, 77999), u32(18740, 44950), u32(39632, 22593),
         u32(17122, 11922), u32(41948, 48827), u32(39792, 65421), u32(0, 14477)>> >>

\* Large powers for base31 operations.
POW31 ==
    << <<u32(0, 31)>>,
       <<u32(0, 961)>>,
       <<u32(9, 23521)>>,
       <<u32(24875, 12833), u32(0, 198)>>,
       <<u32(13533, 09697), u32(29482, 61936), u32(0, 39433)>>,
       <<u32(21112, 90369), u32(8548, 30039), u32(13778, 20608), u32(30051, 87674),
         u32(15550, 15626)>>,
       <<u32(13043, 93729), u32(5584, 65812), u32(27680, 12290), u32(39356, 46446),
         u32(33766, 40041), u32(14194, 77874), u32(15577, 78152), u32(38735, 81017),
         u32(22456, 32988), u32(5630, 01632)>>,
       <<u32(38209, 41313), u32(38405, 74348), u32(19705, 62388), u32(12799, 78999),
         u32(910, 57081), u32(1721, 59608), u32(70, 26786), u32(36097, 78129), u32(3204, 77644),
         u32(27200, 04857), u32(26838, 68502), u32(38727, 69187), u32(17057, 02550),
         u32(12509, 74998), u32(18210, 61582), u32(21426, 10495), u32(24577, 79444),
         u32(1311, 07681), u32(12157, 33575), u32(738, 00524)>> >>

\* get_large_powers with the table of 29 for the base 31.
get_large_powers_mut(base) ==
    CASE base = 3 -> POW3 [] base = 5 -> POW5 [] base = 7 -> POW7
      [] base = 11 -> POW11 [] base = 13 -> POW13 [] base = 17 -> POW17
      [] base = 19 -> POW19 [] base = 23 -> POW23 [] base = 29 -> POW29
      [] base = 31 -> POW29

\* get_large_powers with the tables of 3 and 17 without their last entries.
get_large_powers_cut(base) ==
    CASE base = 3 -> SubSeq(POW3, 1, Len(POW3) - 1) [] base = 5 -> POW5
      [] base = 7 -> POW7 [] base = 11 -> POW11 [] base = 13 -> POW13
      [] base = 17 -> SubSeq(POW17, 1, Len(POW17) - 1)
      [] base = 19 -> POW19 [] base = 23 -> POW23 [] base = 29 -> POW29
      [] base = 31 -> POW31

\* get_large_powers: the table of the base. Any other base is unreachable!().
get_large_powers(base) ==
    CASE base = 3 -> POW3 [] base = 5 -> POW5 [] base = 7 -> POW7
      [] base = 11 -> POW11 [] base = 13 -> POW13 [] base = 17 -> POW17
      [] base = 19 -> POW19 [] base = 23 -> POW23 [] base = 29 -> POW29
      [] base = 31 -> POW31

\* The bases the tables are for.
LargePowerBases == {3, 5, 7, 11, 13, 17, 19, 23, 29, 31}

\* The powers needed are those with b^n <= 2^1075.
LargePowerBits == 1075

\* The 16-bit halves of a sequence of limbs, least significant first.
RECURSIVE Halves(_)
Halves(limbs) == IF limbs = <<>> THEN <<>> ELSE limbs[1] \o Halves(Tail(limbs))

\* The halves of x * y + carry from the k-th half on, for a small y.
RECURSIVE imul_from(_, _, _, _)
imul_from(x, y, k, carry) ==
    IF k > Len(x)
    THEN IF carry = 0 THEN <<>> ELSE <<carry>>
    ELSE <<(x[k] * y + carry) % 65536>>
           \o imul_from(x, y, k + 1, (x[k] * y + carry) \div 65536)

\* The big integer x times a small y: the accumulator's multiplication.
imul(x, y) == imul_from(x, y, 1, 0)

\* The number of bits of a big integer without leading zero halves.
bit_length(x) == 16 * (Len(x) - 1) + BitLength(x[Len(x)])

\* x = 2^e.
is_pow2(x, e) ==
    /\ Len(x) = e \div 16 + 1
    /\ x[Len(x)] = Pow2(e % 16)
    /\ \A k \in 1..(Len(x) - 1) : x[k] = 0

\* x <= 2^e.
le_pow2(x, e) == bit_length(x) <= e \/ is_pow2(x, e)

\* The limbs of a big integer: its halves, with a zero half to fill the last
\* limb.
limbs_of(x) == IF Len(x) % 2 = 1 THEN Append(x, 0) ELSE x

\* A caller with a base, before it asks for the table.
InitLargePowers ==
    /\ \E base \in LargePowerBases :
         fw = [pc |-> "large_powers", base |-> base, powers |-> <<>>, n |-> 0,
               acc |-> <<1>>]
    /\ IterIdle
    /\ cw = CwIdle

\* get_large_powers(base).
GetLargePowers ==
    /\ fw.pc = "large_powers"
    /\ fw' = [fw EXCEPT !.powers = get_large_powers(fw.base), !.pc = "pow"]
    /\ IterUnchanged
    /\ UNCHANGED cw

\* The accumulator takes one more factor of the base, while the power stays
\* within 2^1075.
MulBase ==
    /\ fw.pc = "pow"
    /\ le_pow2(imul(fw.acc, fw.base), LargePowerBits)
    /\ fw' = [fw EXCEPT !.acc = imul(fw.acc, fw.base), !.n = fw.n + 1]
    /\ IterUnchanged
    /\ UNCHANGED cw

NextLargePowers == GetLargePowers \/ MulBase

SpecLargePowers == InitLargePowers /\ [][NextLargePowers]_vars

\* ------------------------------------------------------------ writing twice

\* A caller writes the same value a second time, with the same radix, format
\* and options: into the buffer as the first call left it, or into a buffer
\* that held something else. The first text is kept for comparison.

\* What a destination may hold before the second call: the bytes left in it,
\* or 255 throughout.
PriorContents(bytes) == {bytes, [k \in DOMAIN bytes |-> 255]}

\* compact(self, radix, buffer) once more.
CompactAgain ==
    /\ cw.pc = "done"
    /\ "first" \notin DOMAIN cw
    /\ \E prior \in PriorContents(cw.buffer) :
         cw' = ("first" :> SubSeq(cw.buffer, 1, cw.ret))
                 @@ [cw EXCEPT !.pc = "call", !.value = cw.self,
                               !.digits = [k \in 0..127 |-> Uninit], !.index = 128,
                               !.buffer = prior, !.ret = None]
    /\ IterUnchanged /\ UNCHANGED fw

\* hex::write_float(float, bytes, options) once more.
HexAgain ==
    /\ fw.pc = "done"
    /\ "first" \notin DOMAIN fw
    /\ \E prior \in PriorContents(fw.bytes) :
         fw' = ("first" :> hex_text(fw))
                 @@ [fw EXCEPT !.pc = "hex", !.bytes = prior, !.sci_exp = 0,
                               !.count = 0, !.exact_count = 0, !.cursor = 0,
                               !.scaled_sci_exp = 0, !.notation = "none", !.ret = None]
    /\ IterUnchanged /\ UNCHANGED cw

InitWriteTwice == InitCompact \/ InitHex

NextWriteTwice == NextCompact \/ NextHex \/ CompactAgain \/ HexAgain

SpecWriteTwice == InitWriteTwice /\ [][NextWriteTwice]_vars

\* -------------------------------------------------- the iterator's actions

\* A section iterator freshly made over Bytes::new(slc): any format over the
\* short buffers, and the two literal scenarios under their format.
InitIter ==
    /\ \/ /\ iter \in Sections
          /\ FORMAT \in Formats(iter)
          /\ \E slc \in Buffers : byte = Bytes_new(slc)
       \/ /\ iter = "integer"
          /\ FORMAT = InternalUnderscore
          /\ \E slc \in {Scenario_1_000_000, Scenario__1000} : byte = Bytes_new(slc)
    /\ lastOp = "new"
    /\ ret = None
    /\ sub = NoSub
    /\ yielded = <<>>
    /\ panicked = FALSE
    /\ cw = CwIdle
    /\ fw = FwIdle

\* A call that also writes the first byte of the integer writer's buffer.
Called_mut(op, r, out) ==
    /\ byte' = r.byte
    /\ ret' = r.ret
    /\ panicked' = r.panic
    /\ lastOp' = op
    /\ yielded' = yielded \o out
    /\ sub' = NoSub
    /\ cw' = [cw EXCEPT !.buffer = [@ EXCEPT ![1] = 0]]
    /\ UNCHANGED <<FORMAT, iter, fw>>

\* The effect of a call that returned r and handed out the bytes `out`.
Called(op, r, out) ==
    /\ byte' = r.byte
    /\ ret' = r.ret
    /\ panicked' = r.panic
    /\ lastOp' = op
    /\ yielded' = yielded \o out
    /\ sub' = NoSub
    /\ UNCHANGED <<FORMAT, iter, cw, fw>>

\* The byte a call returned, as the sequence of bytes handed out.
Out(v) == IF v = None THEN <<>> ELSE <<v>>

DoPeek ==
    /\ ~panicked
    /\ Called("peek", peek(FORMAT, iter, byte), <<>>)

DoNext ==
    /\ ~panicked
    /\ LET r == next(FORMAT, iter, byte) IN Called("next", r, Out(r.ret))

\* A call peeked the value p.ret and reaches step_by_unchecked with a
\* debug_assert! false, in a build with debug assertions: the call panics
\* before the step.
StepPanics(op, p) ==
    /\ ~p.panic
    /\ p.ret # None
    /\ ~step_debug_assert(FORMAT, p.byte, 1)
    /\ byte' = p.byte
    /\ panicked' = TRUE
    /\ lastOp' = op
    /\ ret' = None
    /\ sub' = NoSub
    /\ UNCHANGED <<FORMAT, iter, yielded, cw, fw>>

DoTryRead ==
    /\ ~panicked
    /\ \/ LET r == try_read(FORMAT, iter, byte) IN Called("try_read", r, Out(r.ret))
       \/ StepPanics("try_read", peek(FORMAT, iter, byte))

DoReadIf(want) ==
    /\ ~panicked
    /\ \/ LET r == read_if(FORMAT, iter, byte, want) IN Called("read_if", r, Out(r.ret))
       \/ /\ peek(FORMAT, iter, byte).ret = want
          /\ StepPanics("read_if", peek(FORMAT, iter, byte))

\* The zeros skip_zeros passed, as the sequence of bytes handed out.
Zeros(r) == [k \in 1..r.zeros |-> 48]

CalledSkipZeros(r) == Called("skip_zeros", r, Zeros(r))

DoSkipZeros ==
    /\ ~panicked
    /\ CalledSkipZeros(skip_zeros(FORMAT, iter, byte))

DoIsConsumed ==
    /\ ~panicked
    /\ Called("is_consumed", is_consumed(FORMAT, iter, byte), <<>>)

\* take_n returns.
TakeNReturns(r) ==
    /\ byte' = r.byte
    /\ sub' = r.sub
    /\ ret' = IF r.sub.some THEN Len(as_slice(r.sub.bytes)) ELSE None
    /\ lastOp' = "take_n"
    /\ yielded' = yielded \o (IF r.sub.some THEN as_slice(r.sub.bytes) ELSE <<>>)
    /\ UNCHANGED <<FORMAT, iter, panicked, cw, fw>>

\* take_n reaches from_parts with a debug_assert! false, in a build with
\* debug assertions: the call panics before the cursor is set.
TakeNPanics ==
    /\ IS_CONTIGUOUS(FORMAT, iter)
    /\ ~from_parts_debug_assert(FORMAT, byte.slc, byte.index)
    /\ panicked' = TRUE
    /\ lastOp' = "take_n"
    /\ ret' = None
    /\ sub' = NoSub
    /\ UNCHANGED <<FORMAT, iter, byte, yielded, cw, fw>>

DoTakeN(n) ==
    /\ ~panicked
    /\ \/ TakeNReturns(take_n(FORMAT, iter, byte, n))
       \/ TakeNPanics

Init == InitIter

Next ==
    \/ DoPeek
    \/ DoNext
    \/ DoTryRead
    \/ \E want \in Alphabet : DoReadIf(want)
    \/ DoSkipZeros
    \/ DoIsConsumed
    \/ \E n \in 0..MaxTake : DoTakeN(n)

\* The digit iterator under any sequence of calls.
Spec == Init /\ [][Next]_vars

NextYield == DoNext \/ DoTryRead

\* The digit iterator under next() and try_read() calls only.
SpecYield == Init /\ [][NextYield]_vars

\* Repeated next() until none: the bytes yielded after `out`, and the
\* Bytes left behind.
RECURSIVE drain(_, _, _, _)
drain(F, S, b, out) ==
    LET r == next(F, S, b)
    IN  IF r.panic \/ r.ret = None
        THEN [byte |-> r.byte, out |-> out, panic |-> r.panic]
        ELSE drain(F, S, r.byte, Append(out, r.ret))

\* ---------------------------------------------------------------- threads

\* Three threads, each on a buffer of its own: one scans a buffer with the
\* integer iterator, one writes a u8 with compact(), one fetches a table of
\* large powers. Their steps interleave in any order.
InitThreads ==
    /\ iter = "integer"
    /\ FORMAT \in {F \in Formats("integer") :
                     F.digit_separator = 95 /\ F.flags \in {{}, {"I"}, {"C"}, {"I", "L", "T", "C"}}}
    /\ \E slc \in Buffers : byte = Bytes_new(slc)
    /\ lastOp = "new"
    /\ ret = None
    /\ sub = NoSub
    /\ yielded = <<>>
    /\ panicked = FALSE
    /\ \E radix \in {2, 10}, value \in {0, 5, 255}, fill \in {0} :
         cw = [pc |-> "call", bits |-> 8, self |-> <<value>>, radix |-> radix,
               value |-> <<value>>, digits |-> [k \in 0..127 |-> Uninit], index |-> 128,
               buffer |-> [k \in 1..128 |-> fill], ret |-> None]
    /\ \E base \in {3, 31} :
         fw = [pc |-> "large_powers", base |-> base, powers |-> <<>>, n |-> 0,
               acc |-> <<1>>]

NextThreads == DoNext \/ NextCompact \/ GetLargePowers

SpecThreads == InitThreads /\ [][NextThreads]_vars

\* ======================================================================
\* Claims
\* ======================================================================

\* The digit a written byte stands for ('0'..'9', 'A'..'Z'), 255 for any other byte.
DigitOfChar(c) ==
    IF c >= 48 /\ c <= 57 THEN c - 48
    ELSE IF c >= 65 /\ c <= 90 THEN c - 65 + 10
    ELSE 255

\* v * radix + carry over the bytes of v, and the carry out of its top byte.
RECURSIVE MulAdd(_, _, _)
MulAdd(v, radix, carry) ==
    IF v = <<>> THEN [v |-> <<>>, carry |-> carry]
    ELSE LET lo == MulAdd(Tail(v), radix, carry)
             cur == Head(v) * radix + lo.carry
         IN  [v |-> <<cur % 256>> \o lo.v, carry |-> cur \div 256]

\* The number the digits `text` denote in `radix`, accumulated into acc
\* (most significant digit first); <<>> if it does not fit the width of acc.
RECURSIVE ValueOfDigits(_, _, _)
ValueOfDigits(text, radix, acc) ==
    IF text = <<>> THEN acc
    ELSE LET m == MulAdd(acc, radix, DigitOfChar(Head(text)))
         IN  IF m.carry # 0 THEN <<>> ELSE ValueOfDigits(Tail(text), radix, m.v)

\* The bytes compact() reported written.
CompactWritten == SubSeq(cw.buffer, 1, cw.ret)

\* "18446744073709551615"
U64MaxText == <<49, 56, 52, 52, 54, 55, 52, 52, 48, 55, 51, 55, 48, 57, 53, 53, 49, 54, 49, 53>>

\* C1: compact(V, r, buffer) returns the number n of bytes written, and
\* buffer[0..n) holds exactly the radix-r digits of V, most significant
\* first, with no leading zero, V = 0 being written as "0"; 12345 is
\* written "12345" and u64::MAX "18446744073709551615" in radix 10.
C1_CompactDigits ==
    cw.pc = "done" =>
        LET zero == [k \in 1..Len(cw.self) |-> 0]
        IN  /\ cw.ret >= 1 /\ cw.ret <= 128
            /\ \A k \in 1..cw.ret : DigitOfChar(CompactWritten[k]) < cw.radix
            /\ ValueOfDigits(CompactWritten, cw.radix, zero) = cw.self
            /\ cw.ret > 1 => CompactWritten[1] # 48
            /\ cw.self = zero => CompactWritten = <<48>>
            /\ (cw.radix = 10 /\ cw.bits = 32 /\ cw.self = FromNat(12345, 4))
                   => CompactWritten = <<49, 50, 51, 52, 53>>
            /\ (cw.radix = 10 /\ cw.bits = 64 /\ cw.self = MaxOf(8))
                   => CompactWritten = U64MaxText

\* u64::MAX has been written in radix 10, as 20 bytes.
C1_Witness ==
    cw.pc = "done" /\ cw.bits = 64 /\ cw.self = MaxOf(8) /\ cw.radix = 10 /\ cw.ret = 20

\* C2: for every finite float, parsing the text the float writer produced
\* yields the float with the identical bit pattern (-0.0 and +0.0 being
\* distinct), and the text starts with '-' exactly when the sign bit is set.
C2_RoundTripBitwise ==
    (fw.pc = "parsed" /\ fw.self.class \in {"zero", "finite"}) =>
        /\ fw.parsed = fw.self
        /\ (Head(fw.bytes) = 45) <=> fw.self.sign

\* The sign and the literal a special value is to be written with.
SpecialSign(f, F, features) ==
    IF f.sign THEN <<45>>
    ELSE IF "format" \in features /\ F.required_mantissa_sign THEN <<43>>
    ELSE <<>>
SpecialLiteral(f, options) ==
    IF f.class = "nan" THEN options.nan_string ELSE options.inf_string

\* C3: a special value is written as its sign followed by the option's
\* literal, and the length returned is the sign's plus the literal's:
\* INFINITY is written "inf" and -NAN "-NaN".
C3_SpecialSignLiteral ==
    (fw.pc = "written" /\ is_special(fw.self)) =>
        LET sign == SpecialSign(fw.self, fw.format, fw.features)
            literal == SpecialLiteral(fw.self, fw.options)
        IN  /\ fw.bytes = sign \o literal
            /\ fw.len = Len(sign) + Len(literal)
            /\ (fw.self.class = "inf" /\ ~fw.self.sign /\ ~fw.format.required_mantissa_sign)
                   => fw.bytes = InfLiteral
            /\ (fw.self.class = "nan" /\ fw.self.sign) => fw.bytes = <<45>> \o NaNLiteral

\* The maximal runs of separator bytes in slc, as <<first, last>> (from 1).
SeparatorRuns(F, slc) ==
    {r \in (1..Len(slc)) \X (1..Len(slc)) :
        /\ r[1] <= r[2]
        /\ \A k \in r[1]..r[2] : slc[k] = F.digit_separator
        /\ r[1] = 1 \/ slc[r[1] - 1] # F.digit_separator
        /\ r[2] = Len(slc) \/ slc[r[2] + 1] # F.digit_separator}

\* A digit of the section stands right before / right after the run.
DigitBefore(F, slc, r) == r[1] > 1 /\ char_is_digit_const(slc[r[1] - 1], F.mantissa_radix)
DigitAfter(F, slc, r) == r[2] < Len(slc) /\ char_is_digit_const(slc[r[2] + 1], F.mantissa_radix)

\* The format's flags for section S permit the run r where it stands: it
\* is leading, trailing or internal with that flag set, and it is longer
\* than one byte only with the consecutive flag.
RunPermitted(F, S, slc, r) ==
    IF S = "special" THEN "S" \in F.flags
    ELSE /\ \/ ~DigitBefore(F, slc, r) /\ "L" \in F.flags
            \/ ~DigitAfter(F, slc, r) /\ "T" \in F.flags
            \/ DigitBefore(F, slc, r) /\ DigitAfter(F, slc, r) /\ "I" \in F.flags
         /\ r[2] > r[1] => "C" \in F.flags

Permitted(F, S, slc) == \A r \in SeparatorRuns(F, slc) : RunPermitted(F, S, slc, r)

\* slc without its separator bytes, and the format without a separator.
RemoveSeparators(F, slc) == SelectSeq(slc, LAMBDA c : c # F.digit_separator)
NoSeparator(F) == [F EXCEPT !.digit_separator = 0, !.flags = {}]

\* Repeated next() from here on yields, after what was handed out so far,
\* just what repeated next() yields over the buffer without its
\* separators under the format without a separator.
YieldsAsWithoutSeparators ==
    LET d == drain(FORMAT, iter, byte, <<>>)
        plain == drain(NoSeparator(FORMAT), iter,
                       Bytes_new(RemoveSeparators(FORMAT, byte.slc)), <<>>)
    IN  ~d.panic /\ yielded \o d.out = plain.out

\* C4: for any format with a digit separator and any input whose separator
\* runs all stand where the section's flags permit, repeated next() yields
\* the bytes that it yields over the input without its separators under
\* the format without a separator.
C4_SeparatorEquivalence ==
    (FORMAT.digit_separator # 0 /\ Permitted(FORMAT, iter, byte.slc))
        => YieldsAsWithoutSeparators

\* The equivalence over the formats whose section flags peek's match has
\* an arm for, which is every set but the consecutive flag alone.
C4_SeparatorEquivalenceDispatched ==
    (FORMAT.digit_separator # 0 /\ FORMAT.flags # {"C"} /\ Permitted(FORMAT, iter, byte.slc))
        => YieldsAsWithoutSeparators

\* next() has gone through a buffer with a permitted separator in it and
\* has handed out its other bytes.
C4_Witness ==
    /\ iter = "integer"
    /\ FORMAT.digit_separator # 0 /\ FORMAT.flags # {"C"}
    /\ Permitted(FORMAT, iter, byte.slc)
    /\ \E k \in 1..Len(byte.slc) : byte.slc[k] = FORMAT.digit_separator
    /\ lastOp = "next" /\ ret = None /\ ~panicked
    /\ yielded # <<>> /\ yielded = RemoveSeparators(FORMAT, byte.slc)

\* The value of decimal digits given as bytes.
RECURSIVE DecimalValue(_, _)
DecimalValue(text, acc) ==
    IF text = <<>> THEN acc ELSE DecimalValue(Tail(text), acc * 10 + (Head(text) - 48))

\* C5: under the integer format with separator '_' and the internal flag
\* alone, b"1_000_000" yields the digits 1,0,0,0,0,0,0 (the value
\* 1000000) with all 9 bytes consumed, and on b"_1000" the first peek
\* returns the separator itself, no digit, with the cursor still at 0.
C5_InternalOnlyScenarios ==
    (iter = "integer" /\ FORMAT = InternalUnderscore) =>
        /\ byte.slc = Scenario_1_000_000 =>
              LET d == drain(FORMAT, iter, byte, <<>>)
              IN  /\ yielded \o d.out = <<49, 48, 48, 48, 48, 48, 48>>
                  /\ DecimalValue(yielded \o d.out, 0) = 1000000
                  /\ d.byte.index = 9
        /\ (byte.slc = Scenario__1000 /\ lastOp = "peek" /\ yielded = <<>>) =>
              /\ ret = 95
              /\ ~is_digit(FORMAT, ret)
              /\ byte.index = 0

\* b"1_000_000" has been iterated to its end by next().
C5_Witness ==
    /\ iter = "integer" /\ FORMAT = InternalUnderscore
    /\ byte.slc = Scenario_1_000_000
    /\ lastOp = "next" /\ ret = 48
    /\ byte.index = 9
    /\ yielded = <<49, 48, 48, 48, 48, 48, 48>>

\* C6: without the section's consecutive flag one peek() steps over at
\* most one separator byte; with it, peek() steps over all the adjacent
\* separators of a permitted run.
C6_PeekSkipsAtMostOne ==
    [][(lastOp' = "peek" /\ ~panicked' /\ iter # "special") =>
          /\ "C" \notin FORMAT.flags => byte'.index - byte.index <= 1
          /\ ("C" \in FORMAT.flags /\ byte'.index > byte.index)
                => ~sep_at(FORMAT, byte.slc, byte'.index)]_vars

\* C7: two consecutive peek() calls return the same byte (or both none)
\* and the second leaves index and count as they are; is_consumed() does
\* not change the byte the following next() returns.
C7_PeekIdempotent ==
    ~panicked =>
        /\ lastOp = "peek" => peek(FORMAT, iter, byte) = Result(byte, ret)
        /\ LET p == peek(FORMAT, iter, byte)
           IN  peek(FORMAT, iter, p.byte) = p
        /\ LET c == is_consumed(FORMAT, iter, byte)
           IN  next(FORMAT, iter, c.byte) = next(FORMAT, iter, byte)

\* A first peek() has stepped over separators and returned the byte after them.
C7_Witness ==
    /\ lastOp = "peek" /\ ~panicked
    /\ yielded = <<>> /\ byte.index > 0
    /\ ret # None

\* C8: after any sequence of calls the cursor satisfies
\* 0 <= index <= |buf|, and no call modifies the buffer.
C8_CursorInBounds ==
    /\ [](byte.index >= 0 /\ byte.index <= Len(byte.slc))
    /\ [][byte'.slc = byte.slc]_vars

\* take_n has moved the cursor to the end of a non-empty buffer.
C8_Witness ==
    lastOp = "take_n" /\ sub.some /\ byte.index = Len(byte.slc) /\ Len(byte.slc) > 0

\* C9: count <= index in every state, and current_count() equals index
\* whenever the format's separator byte is disabled.
C9_CountAtMostIndex ==
    /\ byte.count <= byte.index
    /\ current_count(FORMAT, byte) <= byte.index
    /\ Bytes_IS_CONTIGUOUS(FORMAT) => current_count(FORMAT, byte) = byte.index
    /\ sub.some => sub.bytes.count <= sub.bytes.index

\* Without a separator byte, an iterator whose section has flags set has
\* yielded bytes: its count field runs, and current_count() is the index.
C9_Witness ==
    /\ Bytes_IS_CONTIGUOUS(FORMAT) /\ ~IS_CONTIGUOUS(FORMAT, iter)
    /\ lastOp = "next" /\ byte.count = 2 /\ byte.index = 2

\* C10: for a format whose separator byte is non-zero, after any sequence
\* of next() and try_read() calls current_count() is the number of bytes
\* those calls yielded.
C10_CountIsYields ==
    FORMAT.digit_separator # 0 => current_count(FORMAT, byte) = Len(yielded)

\* C11: peek's dispatch has an arm for the empty set and for each of the 15
\* non-empty subsets of {internal, leading, trailing, consecutive}: no
\* peek() of a section iterator reaches the unreachable!() arm.
C11_DispatchExhaustive == ~peek(FORMAT, iter, byte).panic

\* C12: skip_zeros() returns the number of b'0' bytes it passed, separator
\* bytes passed over not counted, and leaves the iterator where the next
\* peek is not b'0'.
C12_SkipZerosCountsZeros ==
    [][(lastOp' = "skip_zeros" /\ ~panicked') =>
          /\ ret' = Len(yielded') - Len(yielded)
          /\ peek(FORMAT, iter, byte').ret # 48]_vars

\* C13: take_n(n) on a contiguous section iterator returns a sub-iterator
\* over the next n underlying bytes (as many of them as remain) and
\* advances the cursor by that many; on a skipping section iterator it
\* returns none and leaves index and count as they are.
C13_TakeN ==
    [][\A n \in 0..MaxTake :
          DoTakeN(n) =>
              IF IS_CONTIGUOUS(FORMAT, iter)
              THEN LET k == min(n, Len(byte.slc) - byte.index)
                   IN  /\ ~panicked'
                       /\ sub'.some
                       /\ as_slice(sub'.bytes) = SubSeq(byte.slc, byte.index + 1, byte.index + k)
                       /\ byte'.index = byte.index + k
                       /\ byte'.count = byte.count
              ELSE /\ ~panicked'
                   /\ ~sub'.some
                   /\ byte' = byte]_vars

\* C14: is_done() is true exactly when the cursor is at the end of the
\* buffer, and is_consumed(), when it returns, is true exactly when next()
\* would yield no byte; is_done() implies is_consumed(), and is_consumed()
\* holds without is_done() only while all the remaining bytes are
\* separators that peek steps over.
C14_DoneAndConsumed ==
    LET c == is_consumed(FORMAT, iter, byte)
    IN  /\ is_done(byte) <=> byte.index = Len(byte.slc)
        /\ ~c.panic =>
              /\ c.ret = 1 <=> next(FORMAT, iter, byte).ret = None
              /\ is_done(byte) => c.ret = 1
              /\ (c.ret = 1 /\ ~is_done(byte)) =>
                    /\ \A k \in (byte.index + 1)..Len(byte.slc) :
                          is_digit_separator(FORMAT, byte.slc[k])
                    /\ peek(FORMAT, iter, byte).byte.index = Len(byte.slc)

\* After a next() only separators remain, which peek steps over: the
\* iterator is consumed and not done.
C14_Witness ==
    /\ lastOp = "next" /\ ret # None
    /\ ~is_done(byte)
    /\ is_consumed(FORMAT, iter, byte).ret = 1

\* The back-end the dispatch rule names for a format.
RuleBackend(F) ==
    IF F.radix = 10 THEN "decimal"
    ELSE IF F.radix = F.exponent_base /\ F.radix \in {2, 4, 8, 16, 32} THEN "binary"
    ELSE IF <<F.radix, F.exponent_base>> \in HexPairs THEN "hex"
    ELSE "radix"

\* A write_float call of a finite value has ended, under a format that is
\* valid for the build.
FiniteWriteEnded ==
    /\ fw.pc \in {"written", "parsed", "panic"}
    /\ fw.self.class \in {"zero", "finite"}
    /\ format_is_valid(fw.format, fw.features)

\* C15: for every finite value and every format with radix and exponent
\* base in 2..36 (a build with every radix), write_float selects the
\* back-end by the rule: radix 10 -> decimal; else radix = exponent base, a
\* power of two -> binary; else one of the five pairs -> hex; else radix.
C15_BackendRule ==
    (FiniteWriteEnded /\ "radix" \in fw.features) =>
        /\ fw.pc # "panic"
        /\ fw.backend = RuleBackend(fw.format)

\* C15 (amended): the rule holds for the formats write_float's assertions
\* let through; a format whose radix differs from its exponent base and is
\* none of the five pairs (radix 10 included) ends in the assertion's panic
\* and reaches no back-end.
C15_BackendRuleAsserted ==
    FiniteWriteEnded =>
        IF /\ "power-of-two" \in fw.features
           /\ fw.format.radix # fw.format.exponent_base
           /\ <<fw.format.radix, fw.format.exponent_base>> \notin HexPairs
        THEN fw.pc = "panic" /\ fw.backend = "none"
        ELSE fw.pc # "panic" /\ fw.backend = RuleBackend(fw.format)

\* A finite value was written by the hex back-end under radix 16, base 4.
C15_Witness ==
    /\ fw.pc = "written" /\ fw.self.class = "finite"
    /\ fw.format.radix = 16 /\ fw.format.exponent_base = 4
    /\ fw.backend = "hex"

\* A write_float call has ended.
WriteEnded == fw.pc \in {"written", "parsed", "panic"}

\* The two cases of a special value whose literal is disabled.
LiteralDisabled ==
    \/ fw.self.class = "nan" /\ fw.options.nan_string = NoLiteral
    \/ fw.self.class = "inf" /\ fw.options.inf_string = NoLiteral

\* C16: under a format valid for the build, write_float panics only for a
\* NaN with nan_string none or an infinity with inf_string none; for every
\* other value, format and options it returns a length.
C16_PanicsOnlyForDisabledLiteral ==
    (WriteEnded /\ format_is_valid(fw.format, fw.features)) =>
        /\ fw.pc = "panic" <=> LiteralDisabled
        /\ fw.pc # "panic" => fw.len = Len(fw.bytes)

\* write_float's assert!s fail: the format is not valid for the build, or
\* its radix differs from its exponent base and is none of the five pairs.
AssertFails ==
    \/ ~format_is_valid(fw.format, fw.features)
    \/ /\ "power-of-two" \in fw.features
       /\ fw.format.radix # fw.format.exponent_base
       /\ <<fw.format.radix, fw.format.exponent_base>> \notin HexPairs

\* C16 (amended): write_float panics exactly when one of its assert!s fails
\* or the value is a NaN or an infinity whose literal is none; otherwise it
\* returns the length of what it wrote.
C16_PanicCases ==
    WriteEnded =>
        /\ fw.pc = "panic" <=> (AssertFails \/ LiteralDisabled)
        /\ fw.pc # "panic" => fw.len = Len(fw.bytes)

\* A NaN was to be written under a valid decimal format with nan_string
\* none: the call panicked.
C16_Witness ==
    /\ fw.pc = "panic"
    /\ fw.self.class = "nan" /\ fw.options.nan_string = NoLiteral
    /\ fw.format.radix = 10 /\ fw.format.exponent_base = 10
    /\ format_is_valid(fw.format, fw.features)

\* The scientific exponent of a call of the hex writer: 0 for a zero
\* mantissa, else the position of the mantissa's first bit.
SciExp == IF fw.mantissa = 0 THEN 0 ELSE fw.exp + BitLength(fw.mantissa) - 1

\* The breaks of the options, -5 and 9 when unset.
NegativeBreak ==
    IF fw.options.negative_exponent_break = 0 THEN -5
    ELSE fw.options.negative_exponent_break

PositiveBreak ==
    IF fw.options.positive_exponent_break = 0 THEN 9
    ELSE fw.options.positive_exponent_break

\* The condition under which scientific notation is due.
ScientificDue ==
    /\ ~fw.format.no_exponent_notation
    /\ \/ fw.format.required_exponent_notation
       \/ SciExp < NegativeBreak
       \/ SciExp > PositiveBreak

HexEnded == fw.pc = "done"

\* The text has an exponent character.
HasExponent == \E k \in 1..fw.ret : fw.bytes[k] = fw.options.exponent

\* C17: the hex back-end writes scientific notation iff no_exponent_notation
\* is not set and required_exponent_notation is set or sci_exp is below the
\* negative break or above the positive break (-5 and 9 when unset, sci_exp 0
\* for a zero mantissa); otherwise it writes the positive-exponent layout when
\* sci_exp >= 0 and the negative-exponent layout when sci_exp < 0.
C17_HexNotation ==
    HexEnded =>
        /\ HasExponent <=> ScientificDue
        /\ fw.notation = IF ScientificDue THEN "scientific"
                         ELSE IF SciExp >= 0 THEN "positive" ELSE "negative"

\* A call below the default negative break, written in scientific notation
\* with no flag asking for it.
C17_Witness ==
    /\ HexEnded
    /\ fw.notation = "scientific"
    /\ ~fw.format.required_exponent_notation
    /\ fw.options.negative_exponent_break = 0
    /\ SciExp < -5

\* A call of the hex writer ended in scientific notation.
ScientificEnded == HexEnded /\ fw.notation = "scientific"

\* The first index of the text holding c (the text has one).
RECURSIVE IndexOf(_, _, _)
IndexOf(text, c, k) == IF text[k] = c THEN k ELSE IndexOf(text, c, k + 1)

\* The text ahead of the exponent character.
MantissaText ==
    SubSeq(fw.bytes, 1, IndexOf(hex_text(fw), fw.options.exponent, 1) - 1)

\* The fraction digits of the value without their trailing zeros.
TrimmedFraction == rtrim_zeros(Tail(NatDigits(hex_value(fw), fw.radix)))

\* The mantissa text due: the leading digit alone when the decimal point is
\* dropped, else the leading digit, the decimal point, the trimmed fraction
\* and the zeros that bring the digits to min_significant_digits and to two
\* at least.
MantissaDue(drop) ==
    IF TrimmedFraction = <<>> /\ drop
    THEN <<NatDigits(hex_value(fw), fw.radix)[1]>>
    ELSE <<NatDigits(hex_value(fw), fw.radix)[1], fw.options.decimal_point>>
           \o TrimmedFraction
           \o zeros(max(max(fw.options.min_significant_digits, 2),
                        1 + Len(TrimmedFraction))
                      - (1 + Len(TrimmedFraction)))

HoldsPowers == fw.pc = "pow"

\* A big integer without its leading zero halves.
RECURSIVE normalize(_)
normalize(x) ==
    IF x # <<>> /\ x[Len(x)] = 0 THEN normalize(SubSeq(x, 1, Len(x) - 1)) ELSE x

\* A well-formed entry: limbs below 2^32, the most significant one not zero.
WellFormed(entry) ==
    /\ entry # <<>>
    /\ \A k \in 1..Len(entry) :
         /\ entry[k][1] \in 0..65535
         /\ entry[k][2] \in 0..65535
    /\ entry[Len(entry)] # <<0, 0>>

\* The power held is the last the bound allows.
LastPower == ~le_pow2(imul(fw.acc, fw.base), LargePowerBits)

\* C19: for every prime base get_large_powers returns the base's table, and
\* entry i of it is a well-formed little-endian sequence of 32-bit limbs whose
\* value is base^(2^i): entry 0 is the base, and the power base^(2^i) the
\* caller reaches by multiplying is entry i, for every entry of the table.
C19_LargePowers ==
    HoldsPowers =>
        /\ fw.powers[1] = <<u32(0, fw.base)>>
        /\ \A i \in 1..Len(fw.powers) :
             /\ WellFormed(fw.powers[i])
             /\ fw.n = Pow2(i - 1) => Halves(fw.powers[i]) = limbs_of(fw.acc)
        /\ LastPower => fw.n >= Pow2(Len(fw.powers) - 1)

\* The last entry of the table of 3, reached as 3^512.
C19_Witness ==
    /\ HoldsPowers
    /\ fw.base = 3
    /\ fw.n = 512
    /\ Halves(fw.powers[10]) = limbs_of(fw.acc)

\* The bit i of n is set.
BitSet(n, i) == (n \div Pow2(i)) % 2 = 1

\* C20: each table is truncated at the largest i with base^(2^i) <= 2^1075:
\* every entry is at most 2^1075 and has at most 34 limbs, the next square
\* is above 2^1075, and for every n with base^n <= 2^1075 each set bit of n
\* indexes an entry of the table.
C20_Truncated ==
    HoldsPowers =>
        /\ \A i \in 1..Len(fw.powers) :
             /\ le_pow2(normalize(Halves(fw.powers[i])), LargePowerBits)
             /\ Len(fw.powers[i]) <= 34
        /\ fw.n < Pow2(Len(fw.powers))
        /\ \A i \in 0..10 : BitSet(fw.n, i) => i + 1 \in DOMAIN fw.powers

\* The last power of 17 within the bound, 17^263, with the bit of the last
\* entry set.
C20_Witness ==
    /\ HoldsPowers
    /\ fw.base = 17
    /\ LastPower
    /\ BitSet(fw.n, Len(fw.powers) - 1)
    /\ Len(fw.powers[Len(fw.powers)]) = 33

\* A second call of a writer has ended.
CompactTwice == cw.pc = "done" /\ "first" \in DOMAIN cw

HexTwice == fw.pc = "done" /\ "first" \in DOMAIN fw

\* C21: a write is independent of the destination's prior contents: the
\* compact integer writer and the hex float writer, called again with the
\* same value, format and options on a destination holding other bytes,
\* return the same length and leave the same bytes in [0, length).
C21_WriteIndependent ==
    /\ CompactTwice => SubSeq(cw.buffer, 1, cw.ret) = cw.first
    /\ HexTwice => hex_text(fw) = fw.first

\* A second hex write in scientific notation into a destination that held
\* 255 where the first held 0.
C21_Witness ==
    /\ HexTwice
    /\ fw.notation = "scientific"
    /\ fw.fill = 0
    /\ fw.bytes[HexBufferLen] = 255
    /\ Len(fw.first) > 3

\* A second compact write into such a destination.
C21_WitnessCompact ==
    /\ CompactTwice
    /\ cw.buffer[128] = 255
    /\ cw.ret > 1

\* The scan of the buffer run alone, from its start.
ScanAlone == drain(FORMAT, iter, Bytes_new(byte.slc), <<>>)

\* The scan as the thread will have finished it from where it is.
ScanHere == drain(FORMAT, iter, byte, yielded)

AtSeparator ==
    /\ FORMAT.digit_separator # 0
    /\ byte.index < Len(byte.slc)
    /\ byte.slc[byte.index + 1] = FORMAT.digit_separator

\* The run of separators the cursor is in.
RunAtCursor ==
    CHOOSE r \in SeparatorRuns(FORMAT, byte.slc) :
        r[1] <= byte.index + 1 /\ byte.index + 1 <= r[2]

\* The flags permit the position of the run: leading, trailing or internal.
PositionPermitted(r) ==
    \/ ~DigitBefore(FORMAT, byte.slc, r) /\ "L" \in FORMAT.flags
    \/ ~DigitAfter(FORMAT, byte.slc, r) /\ "T" \in FORMAT.flags
    \/ /\ DigitBefore(FORMAT, byte.slc, r)
       /\ DigitAfter(FORMAT, byte.slc, r)
       /\ "I" \in FORMAT.flags

\* peek of a digit section has an arm for the flags.
PeekHandles == iter # "special" /\ FORMAT.flags # {"C"}

RadixDigits(text) == \A k \in 1..Len(text) : DigitOfChar(text[k]) < fw.radix

\* A leading digit, the decimal point, the fraction digits.
PointLayout(text) ==
    /\ Len(text) >= 2
    /\ RadixDigits(<<text[1]>>)
    /\ text[2] = fw.options.decimal_point
    /\ RadixDigits(SubSeq(text, 3, Len(text)))

\* The text after the exponent character: the sign, '-' iff the scaled
\* exponent is negative and '+' iff it is not and the format requires a sign,
\* then the digits of the exponent, up to the length returned.
ExponentLayout ==
    SubSeq(fw.bytes, Len(MantissaText) + 2, fw.ret)
      = (IF fw.scaled_sci_exp < 0 THEN <<45>>
         ELSE IF fw.format.required_exponent_sign THEN <<43>> ELSE <<>>)
        \o NatDigits(IF fw.scaled_sci_exp < 0 THEN -fw.scaled_sci_exp
                     ELSE fw.scaled_sci_exp, 10)

\* C24: hex scientific output is one leading digit, the decimal-point byte,
\* the fraction digits, the exponent character, an optional exponent sign
\* ('-' iff the scaled exponent is negative, '+' iff it is non-negative and
\* required_exponent_sign is set), then the exponent digits, and the length
\* returned is the length of this layout.
C24_ScientificLayout ==
    ScientificEnded => PointLayout(MantissaText) /\ ExponentLayout

\* The decimal point of a float is trimmed.
PointTrimmed ==
    /\ TrimmedFraction = <<>>
    /\ fw.options.trim_floats
    /\ ~fw.format.no_exponent_without_fraction

\* C24 as the code has it: the mantissa is the leading digit alone when the
\* decimal point is trimmed, else the leading digit, the decimal point and
\* one fraction digit at least.
C24_ScientificLayoutTrimmed ==
    ScientificEnded =>
        /\ IF PointTrimmed
           THEN Len(MantissaText) = 1 /\ RadixDigits(MantissaText)
           ELSE Len(MantissaText) >= 3 /\ PointLayout(MantissaText)
        /\ ExponentLayout

\* A text with a fraction, a required '+' and an exponent of one digit.
C24_Witness ==
    /\ ScientificEnded
    /\ Len(MantissaText) >= 3
    /\ fw.format.required_exponent_sign
    /\ fw.bytes[Len(MantissaText) + 2] = 43
    /\ fw.ret = Len(MantissaText) + 3

\* C25: for every radix pair of the hex back-end and every binary
\* scientific exponent sci_exp, negative or not, scale_sci_exp returns s with
\* s * bits_per_base = bits_per_digit * floor(sci_exp / bits_per_digit), the
\* floor taken toward minus infinity.
C25_ScaledExponent ==
    ScientificEnded =>
        fw.scaled_sci_exp * bits_per_base(fw)
          = bits_per_digit(fw) * (SciExp \div bits_per_digit(fw))

\* Radix 16 with exponent base 4 and the exponent -5, which is no multiple
\* of the four bits of a digit: the scaled exponent is -4.
C25_Witness ==
    /\ ScientificEnded
    /\ fw.radix = 16 /\ fw.exponent_base = 4
    /\ SciExp = -5
    /\ fw.scaled_sci_exp = -4

\* The significant digits of the mantissa text: its bytes but the decimal
\* point.
SignificantDigits == Len(SelectSeq(MantissaText, LAMBDA c : c # fw.options.decimal_point))

\* C26: in hex scientific notation, whenever min_significant_digits = k is
\* set, the mantissa text ahead of the exponent character has at least k
\* significant digits, for every mantissa and either setting of trim_floats.
C26_MinSignificantDigits ==
    (ScientificEnded /\ fw.options.min_significant_digits # 0) =>
        SignificantDigits >= fw.options.min_significant_digits

\* A call of try_read or read_if ended.
StepCalled == lastOp' \in {"try_read", "read_if"}

\* C27: every call of step_by_unchecked made through try_read or read_if on
\* a skipping iterator meets its debug preconditions: the call does not
\* panic, a byte was left to step over, and the byte stepped over, which is
\* the byte handed out, is not the digit separator, also where peek returns
\* a separator that is not permitted at its position.
C27_StepPreconditions ==
    [][StepCalled =>
          /\ ~panicked'
          /\ ret' # None =>
                /\ byte'.index <= Len(byte.slc)
                /\ FORMAT.digit_separator # 0 => ret' # FORMAT.digit_separator]_vars

\* C28: whenever a section iterator's take_n reaches Bytes::from_parts, the
\* preconditions of from_parts hold (index <= slice length, and Bytes is
\* contiguous): a section iterator is contiguous only if its Bytes is, also
\* for a format whose separator byte is set and whose flags for the section
\* are all clear.
C28_FromPartsPreconditions ==
    /\ [](IS_CONTIGUOUS(FORMAT, iter) => Bytes_IS_CONTIGUOUS(FORMAT))
    /\ [][(lastOp' = "take_n" /\ IS_CONTIGUOUS(FORMAT, iter)) =>
             /\ ~panicked'
             /\ byte.index <= Len(byte.slc)
             /\ Bytes_IS_CONTIGUOUS(FORMAT)]_vars

\* C29: compact() terminates for every value of a type of at most 128 bits
\* and every radix in 2..36 with at most 128 digits written: the scratch
\* index stays within 0..128, the call does not panic, and it ends with a
\* length of at most 128.
C29_CompactTerminates ==
    /\ [](cw.pc # "panic" /\ cw.index \in 0..128)
    /\ <>(cw.pc = "done" /\ cw.ret \in 1..128)

\* u128::MAX in radix 2: 128 digits, the scratch index at 0.
C29_Witness ==
    /\ cw.pc = "done"
    /\ cw.bits = 128 /\ cw.self = MaxOf(16) /\ cw.radix = 2
    /\ cw.index = 0
    /\ cw.ret = 128

\* The byte before / after the separator run r is a digit of the exponent
\* radix.
ExponentDigitBefore(r) ==
    r[1] > 1 /\ char_is_digit_const(byte.slc[r[1] - 1], FORMAT.exponent_radix)
ExponentDigitAfter(r) ==
    r[2] < Len(byte.slc) /\ char_is_digit_const(byte.slc[r[2] + 1], FORMAT.exponent_radix)

\* The flags permit the position of the run, its neighbours judged as digits
\* of the exponent radix.
ExponentPositionPermitted(r) ==
    \/ ~ExponentDigitBefore(r) /\ "L" \in FORMAT.flags
    \/ ~ExponentDigitAfter(r) /\ "T" \in FORMAT.flags
    \/ ExponentDigitBefore(r) /\ ExponentDigitAfter(r) /\ "I" \in FORMAT.flags

\* C30: in the exponent section a neighbour of a separator run counts as a
\* digit iff it is a digit of the exponent radix, not of the mantissa radix:
\* a run followed by a byte that is a digit of the mantissa radix only is
\* trailing, so peek skips it iff the trailing flag permits it.
C30_ExponentRadixClassifies ==
    (iter = "exponent" /\ AtSeparator /\ PeekHandles) =>
        /\ ~peek(FORMAT, iter, byte).panic
        /\ IF ExponentPositionPermitted(RunAtCursor)
           THEN /\ peek(FORMAT, iter, byte).byte.index = RunAtCursor[2]
                /\ peek(FORMAT, iter, byte).ret = get(byte.slc, RunAtCursor[2])
           ELSE /\ peek(FORMAT, iter, byte).byte.index = byte.index
                /\ peek(FORMAT, iter, byte).ret = FORMAT.digit_separator
====
